---------------------------- MODULE Spec2Model ----------------------------
(***************************************************************************)
(* flip-coin: the flipCoin controller (simulation/controller.ts), the      *)
(* entropy pool it awaits (entropy/pool.ts, entropy/mixer.ts), the         *)
(* initial-condition sampler (simulation/initial.ts), the stability        *)
(* detector, the face evaluator and the Mat3 inverse used by the RigidBody *)
(* constructor.                                                            *)
(*                                                                         *)
(* Numbers.  JavaScript numbers are IEEE doubles.  Quantities that only    *)
(* meet thresholds are kept as integers in a fixed unit (named where they  *)
(* are used).  The inertia tensor spans many orders of magnitude, so it is *)
(* computed in decimal floating point: a value is [m |-> mantissa,         *)
(* e |-> exponent] = m * 10^e with DecDigits significant digits, results   *)
(* truncated toward zero.                                                  *)
(***************************************************************************)
EXTENDS Integers, Sequences, FiniteSets, TLC

(***************************************************************************)
(* Decimal floating point                                                  *)
(***************************************************************************)

\* significant decimal digits kept by the arithmetic of the model
DecDigits == 4

RECURSIVE Pow10(_)
Pow10(n) == IF n <= 0 THEN 1 ELSE 10 * Pow10(n - 1)

Abs(x) == IF x < 0 THEN -x ELSE x

DZero == [m |-> 0, e |-> 0]

\* m * 10^e brought to exactly DecDigits digits (0 stays 0)
RECURSIVE DNorm(_, _)
DNorm(m, e) ==
    IF m = 0 THEN DZero
    ELSE IF Abs(m) >= Pow10(DecDigits)
         THEN DNorm(IF m < 0 THEN -((-m) \div 10) ELSE m \div 10, e + 1)
    ELSE IF Abs(m) < Pow10(DecDigits - 1)
         THEN DNorm(m * 10, e - 1)
    ELSE [m |-> m, e |-> e]

\* the literal m * 10^e
Dec(m, e) == DNorm(m, e)

DNeg(a) == [m |-> -a.m, e |-> a.e]

DAbs(a) == [m |-> Abs(a.m), e |-> a.e]

\* a * b; the product of the mantissas is formed in two halves so that it
\* stays inside the 32-bit integers of the checker
DMul(a, b) ==
    IF a.m = 0 \/ b.m = 0 THEN DZero
    ELSE LET sgn == IF (a.m < 0) = (b.m < 0) THEN 1 ELSE -1
             x   == Abs(a.m)
             y   == Abs(b.m)
             hi  == x * (y \div 100)
             lo  == (x * (y % 100)) \div 100
         IN  DNorm(sgn * (hi + lo), a.e + b.e + 2)

\* a + b; the operand of smaller exponent is shifted right (truncated)
DAdd(a, b) ==
    IF a.m = 0 THEN b
    ELSE IF b.m = 0 THEN a
    ELSE IF a.e >= b.e
         THEN IF a.e - b.e > DecDigits THEN a
              ELSE LET s == Pow10(a.e - b.e)
                       q == IF b.m < 0 THEN -((-b.m) \div s) ELSE b.m \div s
                   IN  DNorm(a.m + q, a.e)
    ELSE IF b.e - a.e > DecDigits THEN b
         ELSE LET s == Pow10(b.e - a.e)
                  q == IF a.m < 0 THEN -((-a.m) \div s) ELSE a.m \div s
              IN  DNorm(b.m + q, b.e)

DSub(a, b) == DAdd(a, DNeg(b))

\* a / b for b # 0
DDiv(a, b) ==
    IF a.m = 0 THEN DZero
    ELSE LET sgn == IF (a.m < 0) = (b.m < 0) THEN 1 ELSE -1
         IN  DNorm(sgn * ((Abs(a.m) * 10000) \div Abs(b.m)), a.e - b.e - 4)

\* a < b
DLess(a, b) ==
    IF a.m = 0 THEN b.m > 0
    ELSE IF b.m = 0 THEN a.m < 0
    ELSE IF (a.m < 0) # (b.m < 0) THEN a.m < 0
    ELSE IF a.m > 0
         THEN a.e < b.e \/ (a.e = b.e /\ a.m < b.m)
         ELSE a.e > b.e \/ (a.e = b.e /\ a.m < b.m)


(***************************************************************************)
(* Mat3: nine numbers, row-major (m00 m01 m02 m10 ... m22)                 *)
(***************************************************************************)

\* Mat3.TOLERANCE = 1e-6
Mat3_TOLERANCE == Dec(1, -6)

\* what inverse() returns for a singular matrix
Null == << >>

Diagonal(a, b, c) == << a, DZero, DZero,  DZero, b, DZero,  DZero, DZero, c >>

\* Mat3.determinant: m00(m11 m22 - m12 m21) - m01(m10 m22 - m12 m20)
\*                   + m02(m10 m21 - m11 m20)
Determinant(M) ==
    DAdd(DSub(DMul(M[1], DSub(DMul(M[5], M[9]), DMul(M[6], M[8]))),
              DMul(M[2], DSub(DMul(M[4], M[9]), DMul(M[6], M[7])))),
         DMul(M[3], DSub(DMul(M[4], M[8]), DMul(M[5], M[7]))))

\* the singularity test of Mat3.inverse: Math.abs(det) < Mat3.TOLERANCE
InverseSingular(det) == DLess(DAbs(det), Mat3_TOLERANCE)

\* Mat3.inverse: null when singular, else the transposed cofactors over det
Inverse(M) ==
    LET det == Determinant(M) IN
    IF InverseSingular(det) THEN Null
    ELSE LET c00 == DSub(DMul(M[5], M[9]), DMul(M[6], M[8]))
             c01 == DNeg(DSub(DMul(M[4], M[9]), DMul(M[6], M[7])))
             c02 == DSub(DMul(M[4], M[8]), DMul(M[5], M[7]))
             c10 == DNeg(DSub(DMul(M[2], M[9]), DMul(M[3], M[8])))
             c11 == DSub(DMul(M[1], M[9]), DMul(M[3], M[7]))
             c12 == DNeg(DSub(DMul(M[1], M[8]), DMul(M[2], M[7])))
             c20 == DSub(DMul(M[2], M[6]), DMul(M[3], M[5]))
             c21 == DNeg(DSub(DMul(M[1], M[6]), DMul(M[3], M[4])))
             c22 == DSub(DMul(M[1], M[5]), DMul(M[2], M[4]))
             invDet == DDiv(Dec(1, 0), det)
         IN  << DMul(c00, invDet), DMul(c10, invDet), DMul(c20, invDet),
                DMul(c01, invDet), DMul(c11, invDet), DMul(c21, invDet),
                DMul(c02, invDet), DMul(c12, invDet), DMul(c22, invDet) >>

(***************************************************************************)
(* Coin configuration (types/coin-config.ts) and the inertia tensor        *)
(***************************************************************************)

\* An options object is a record that has a field exactly when the caller
\* supplied it; {} is the record with no field.
EmptyObject == [f \in {} |-> 0]

Has(obj, f) == f \in DOMAIN obj

\* destructuring with a default:  const { f = dflt } = obj
OrDefault(obj, f, dflt) == IF Has(obj, f) THEN obj[f] ELSE dflt

\* defaultCoinConfig: 0.00567 kg, 0.01213 m, 0.00175 m
defaultCoinConfig ==
    [mass |-> Dec(567, -5), radius |-> Dec(1213, -5), thickness |-> Dec(175, -5)]

\* { ...defaults, ...user }: a supplied field wins, an absent one keeps the default
Spread(defaults, user) ==
    [f \in DOMAIN defaults \cup DOMAIN user |->
        IF Has(user, f) THEN user[f] ELSE defaults[f]]

\* I_yy = 0.5 m r r ;  I_xx = I_zz = (1/12) m (3 r r + h h)
InertiaTensor(cfg) ==
    LET r == cfg.radius
        h == cfg.thickness
        m == cfg.mass
        I_yy == DMul(DMul(DMul(Dec(5, -1), m), r), r)
        I_xx == DMul(DMul(DDiv(Dec(1, 0), Dec(12, 0)), m),
                     DAdd(DMul(DMul(Dec(3, 0), r), r), DMul(h, h)))
    IN  Diagonal(I_xx, I_yy, I_xx)


(***************************************************************************)
(* Entropy pool (entropy/pool.ts) and mixer (entropy/mixer.ts)             *)
(*                                                                         *)
(* A byte array is [len, origin]: its length and where its content comes   *)
(* from.  SHA-256 is not computed; a digest is named by what was hashed.   *)
(* Times are milliseconds.                                                 *)
(***************************************************************************)

ENTROPY_LEVEL_CONFIGS ==
    [fast     |-> [minTimeMs |-> 100,  targetBits |-> 64,  maxTimeMs |-> 500],
     standard |-> [minTimeMs |-> 200,  targetBits |-> 128, maxTimeMs |-> 1000],
     high     |-> [minTimeMs |-> 500,  targetBits |-> 256, maxTimeMs |-> 2000],
     paranoid |-> [minTimeMs |-> 2000, targetBits |-> 512, maxTimeMs |-> 5000]]

\* options.outputBytes ?? 64
DefaultOutputBytes == 64

\* a SHA-256 digest is 32 bytes; also the block size of expandEntropy
BlockSize == 32

Max(a, b) == IF a >= b THEN a ELSE b

Min(a, b) == IF a <= b THEN a ELSE b

\* Math.ceil(a / b) for a >= 0, b > 0
CeilDiv(a, b) == (a + b - 1) \div b

\* mixEntropy: no source gives the empty array, else SHA-256 of the concatenation
MixEntropy(sources, origin) ==
    IF Len(sources) = 0 THEN [len |-> 0, origin |-> <<"empty">>]
    ELSE [len |-> BlockSize, origin |-> <<"sha256", origin>>]

\* expandEntropy: ceil(L / 32) counter-mode blocks, sliced to L bytes
ExpandEntropy(seed, outputLength) ==
    LET blocksNeeded == CeilDiv(outputLength, BlockSize)
    IN  [len |-> Min(blocksNeeded * BlockSize, outputLength),
         origin |-> <<"expand", seed.origin>>]

\* the values an element of a Uint8Array can hold
ByteValues == 256

\* `input[seed.length] = i`: a store into a Uint8Array keeps i modulo 2^8
CounterByte(i) == i % ByteValues

\* the counter byte hashed into each block of expandEntropy(seed,
\* outputLength), in the order of the blocks
BlockCounters(outputLength) ==
    [i \in 1..CeilDiv(outputLength, BlockSize) |-> CounterByte(i - 1)]

\* the samples the timing source is asked for, and the bytes asked of crypto
TimingSamples(config) == Max(CeilDiv(config.targetBits, 4), 64)

CryptoBytes(config) == Max(CeilDiv(config.targetBits, 8), 16)

\* a sweep that hands the timing source its default timeout whatever remains
TimingTimeout_Uncapped(maxSweepTime) == 200

\* the timeout handed to the timing source: min(timeoutMs ?? 200, remaining)
TimingTimeout(maxSweepTime) == Min(200, maxSweepTime)

\* the timeout handed to the crypto source: min(timeoutMs ?? 100, remaining)
CryptoTimeout(maxSweepTime) == Min(100, maxSweepTime)

\* what one source can report in one sweep: it failed, or it succeeded with
\* an estimate of the bits it collected
TimingOutcomes(config) ==
    { [name |-> "timing", success |-> FALSE, estimatedBits |-> 0],
      [name |-> "timing", success |-> TRUE, estimatedBits |-> TimingSamples(config)] }

CryptoOutcomes(config) ==
    { [name |-> "crypto", success |-> FALSE, estimatedBits |-> 0],
      [name |-> "crypto", success |-> TRUE, estimatedBits |-> 8 * CryptoBytes(config)] }

(***************************************************************************)
(* Initial-condition sampler (simulation/initial.ts)                       *)
(***************************************************************************)

\* a reader that wants a spare word behind the one it reads
NextUniform_SpareWord(data, offset) ==
    IF offset + 8 > data.len
    THEN [from |-> "Math.random", offset |-> offset]
    ELSE [from |-> "bytes", origin |-> data.origin, at |-> offset, offset |-> offset + 4]

\* EntropyReader.nextUniform at cursor `offset`: four bytes of the data, or
\* Math.random() when fewer than four remain
NextUniform(data, offset) ==
    IF offset + 4 > data.len
    THEN [from |-> "Math.random", offset |-> offset]
    ELSE [from |-> "bytes", origin |-> data.origin, at |-> offset, offset |-> offset + 4]

\* the uniforms read by n consecutive nextUniform calls starting at `offset`
RECURSIVE ReadUniforms(_, _, _)
ReadUniforms(data, offset, n) ==
    IF n = 0 THEN << >>
    ELSE LET u == NextUniform(data, offset)
         IN  <<u>> \o ReadUniforms(data, u.offset, n - 1)

\* nextGaussian reads two uniforms; the sampler calls it five times
\* (impulse, spin magnitude, three axis perturbations)
UniformsPerGaussian == 2

GaussiansPerSample == 5

\* generateInitialCondition: the launch state, each sampled quantity named by
\* the uniforms Box-Muller turned into it
GenerateInitialCondition(entropy, launchParams) ==
    LET u == ReadUniforms(entropy, 0, GaussiansPerSample * UniformsPerGaussian)
    IN  [position        |-> launchParams.initialPosition,
         orientation     |-> launchParams.initialOrientation,
         linearVelocity  |-> [gaussian |-> SubSeq(u, 1, 2)],
         angularVelocity |-> [gaussian |-> SubSeq(u, 3, 4), axis |-> SubSeq(u, 5, 10)],
         uniforms        |-> u]

\* DEFAULT_LAUNCH_PARAMETERS (position 1 m up, identity orientation)
DEFAULT_LAUNCH_PARAMETERS ==
    [initialPosition |-> <<0, 100000, 0>>, initialOrientation |-> <<1, 0, 0, 0>>]


(***************************************************************************)
(* Stability detector (simulation/stability.ts), face evaluator            *)
(* (evaluator/face.ts), collision (physics/collision.ts)                   *)
(*                                                                         *)
(* The body the controller steps is kept as the five quantities its        *)
(* detectors read: lengths in 1e-5 m, speeds in 1e-3 (m/s, rad/s),         *)
(* alignment (the y component of the rotated local up axis) in 1e-3.       *)
(***************************************************************************)

\* DEFAULT_LINEAR_THRESHOLD = 0.01 m/s
DEFAULT_LINEAR_THRESHOLD == 10

\* DEFAULT_ANGULAR_THRESHOLD = 0.1 rad/s
DEFAULT_ANGULAR_THRESHOLD == 100

\* the hard-coded ground band of isStable: position.y < 0.01
GroundBand == 1000

\* DEFAULT_EDGE_THRESHOLD = 0.1
DEFAULT_EDGE_THRESHOLD == 100

\* DEFAULT_COLLISION_CONFIG.penetrationTolerance = 0.0001 m
PenetrationTolerance == 10

\* a detector whose ground band includes its upper end
IsStable_BandInclusive(b) ==
    IF b.linearSpeed > DEFAULT_LINEAR_THRESHOLD THEN FALSE
    ELSE IF b.angularSpeed > DEFAULT_ANGULAR_THRESHOLD THEN FALSE
    ELSE b.y <= GroundBand

IsStable(b) ==
    IF b.linearSpeed > DEFAULT_LINEAR_THRESHOLD THEN FALSE
    ELSE IF b.angularSpeed > DEFAULT_ANGULAR_THRESHOLD THEN FALSE
    ELSE b.y < GroundBand

\* a classifier whose edge band leaves out its two ends
DetermineFace_OpenBand(b) ==
    IF Abs(b.alignment) < DEFAULT_EDGE_THRESHOLD THEN "EDGE"
    ELSE IF b.alignment > 0 THEN "HEADS" ELSE "TAILS"

DetermineFace(b) ==
    IF Abs(b.alignment) <= DEFAULT_EDGE_THRESHOLD THEN "EDGE"
    ELSE IF b.alignment > 0 THEN "HEADS" ELSE "TAILS"

\* GROUND_NORMAL = Vec3.UP
GROUND_NORMAL == <<0, 1, 0>>

\* a detector that reports the depth beyond the tolerance
DetectCollision_Exceedance(b) ==
    IF b.penetration < PenetrationTolerance
    THEN [colliding |-> FALSE]
    ELSE [colliding |-> TRUE, normal |-> GROUND_NORMAL,
          penetrationDepth |-> b.penetration - PenetrationTolerance]

\* detectCollision: not colliding when the penetration (GROUND_Y minus the y
\* of the lower face center) is below the tolerance, else colliding with the
\* ground normal and that penetration
DetectCollision(b) ==
    IF b.penetration < PenetrationTolerance
    THEN [colliding |-> FALSE]
    ELSE [colliding |-> TRUE, normal |-> GROUND_NORMAL,
          penetrationDepth |-> b.penetration]

\* a responder that takes the speed out of every body it is handed
ApplyCollisionResponse_AlwaysResponds(b, collision, after) ==
    [b EXCEPT !.linearSpeed = after.linearSpeed,
              !.angularSpeed = after.angularSpeed,
              !.y = IF collision.colliding THEN b.y + collision.penetrationDepth
                    ELSE b.y,
              !.penetration = IF collision.colliding THEN 0 ELSE b.penetration]

\* a responder that changes the velocities and leaves the position alone
ApplyCollisionResponse_NoProjection(b, collision, after) ==
    IF ~collision.colliding THEN b
    ELSE [b EXCEPT !.linearSpeed = after.linearSpeed,
                   !.angularSpeed = after.angularSpeed]

\* applyCollisionResponse: nothing without a collision; else the impulses
\* change the velocities (to `after`, one of the responder's possible results)
\* and the position is projected out of the ground by the penetration depth
ApplyCollisionResponse(b, collision, after) ==
    IF ~collision.colliding THEN b
    ELSE [b EXCEPT !.linearSpeed = after.linearSpeed,
                   !.angularSpeed = after.angularSpeed,
                   !.y = IF collision.penetrationDepth > 0
                         THEN b.y + collision.penetrationDepth ELSE b.y,
                   !.penetration = IF collision.penetrationDepth > 0 THEN 0
                                   ELSE b.penetration]

\* the controller's near-ground damping: both velocities times 0.8 when
\* position.y < coinConfig.radius
GroundDamping(b, cfg) ==
    IF DLess(Dec(b.y, -5), cfg.radius)
    THEN [b EXCEPT !.linearSpeed = (b.linearSpeed * 8) \div 10,
                   !.angularSpeed = (b.angularSpeed * 8) \div 10]
    ELSE b

\* What integrate(body, dt) can leave behind.  RK4 is numerical and is not
\* recomputed: a step ends in one of these representative states.
IntegratedBodies ==
    { \* in flight
      [y |-> 100000, penetration |-> -99971, alignment |-> 340,
       linearSpeed |-> 5000, angularSpeed |-> 120000],
      \* hitting the ground face down
      [y |-> 67, penetration |-> 21, alignment |-> -1000,
       linearSpeed |-> 3000, angularSpeed |-> 40000],
      \* lying heads up, still creeping: stable only once damped
      [y |-> 87, penetration |-> 1, alignment |-> 1000,
       linearSpeed |-> 12, angularSpeed |-> 0],
      \* at rest on its rim: only the face centers are tested against the
      \* ground, so an upright coin rests with its center at the plane
      [y |-> -5, penetration |-> 5, alignment |-> 0,
       linearSpeed |-> 0, angularSpeed |-> 0] }

\* the velocities the collision responder can leave behind
ImpactResponses ==
    { [linearSpeed |-> 1500, angularSpeed |-> 20000],
      [linearSpeed |-> 0, angularSpeed |-> 0] }

\* the body built from the sampled initial state (speeds at their means)
InitialBody ==
    [y |-> 100000, penetration |-> -99912, alignment |-> 1000,
     linearSpeed |-> 5000, angularSpeed |-> 120000]


(***************************************************************************)
(* flipCoin (simulation/controller.ts)                                     *)
(***************************************************************************)

\* maxConsecutiveStableFrames
maxConsecutiveStableFrames == 10

\* the defaults of the destructured options: timeout = 10000 ms (in tenths
\* of a millisecond), maxEdgeRetries = 5
DefaultTimeout == 100000

DefaultMaxEdgeRetries == 5

\* Input bounds: timeouts are given in tenths of a millisecond (one step of
\* dt = 1e-4 s adds 0.1 ms), the short one too short to settle in
TimeoutShort == 1

TimeoutLong == 10

MaxRetryLimit == 1

\* wall-clock durations of a simulation loop (tenths of a millisecond): a
\* fast machine and a slow one
RunTimeFast == 1

RunTimeSlow == 50

\* duration of a sweep whose sources answer before their timeouts (ms)
SweepQuickMs == 200

\* The accumulated elapsedSimulationTime after n additions of dt * 1000 is
\* the double sum 0.1 + 0.1 + ..., which differs from n / 10 in the last
\* bits: -1 below it, 0 equal, 1 above it (IEEE 754 round-to-nearest).
FloatSumSign(n) ==
    IF n = 3 THEN 1
    ELSE IF n \in 8..11 THEN -1
    ELSE IF n >= 14 THEN 1
    ELSE 0

\* while (elapsedSimulationTime < timeout), after n steps
LoopCondition(n, timeoutTenths) ==
    n < timeoutTenths \/ (n = timeoutTenths /\ FloatSumSign(n) < 0)

UserCoinConfigs ==
    { [mass |-> Dec(20, -3), radius |-> Dec(15, -3), thickness |-> Dec(3, -3)],
      [mass |-> Dec(1000, 0)],
      [radius |-> Dec(2, -2), thickness |-> Dec(2, -3)] }

\* the option objects callers pass: no options at all, an entropy level
\* alone, no time at all, and a timeout and a retry limit with or without a
\* coin under the
\* documented key `coin` or the key the code reads, `coinConfig`
FlipOptionsInputs ==
    { EmptyObject, [entropyLevel |-> "fast"] }
    \cup { [entropyLevel |-> "fast", timeout |-> 0],
           [entropyLevel |-> "fast", timeout |-> 0, coinConfig |-> [mass |-> Dec(1000, 0)]] }
    \cup { [timeout |-> t, maxEdgeRetries |-> n] @@ coin :
             t \in {TimeoutShort, TimeoutLong},
             n \in 0..MaxRetryLimit,
             coin \in { EmptyObject } \cup { [coin |-> c] : c \in UserCoinConfigs }
                      \cup { [coinConfig |-> c] : c \in UserCoinConfigs } }

(***************************************************************************)
(* collectEntropy's accumulation loop (entropy/pool.ts).  A pool state is  *)
(* the loop's locals: the time elapsed since the call began, the names of  *)
(* the successful results so far, and the bits they estimate.              *)
(***************************************************************************)

PoolStart == [elapsed |-> 0, allResults |-> << >>, totalBits |-> 0]

\* the loop leaves at the top of an iteration: the time budget is spent, or
\* the target is met and the minimum time has passed
PoolTimeUp(config, p) == p.elapsed >= config.maxTimeMs

PoolSatisfied(config, p) ==
    p.totalBits >= config.targetBits /\ p.elapsed >= config.minTimeMs

\* performEntropySweep: the timing source always, the crypto source when it
\* is available; a rejected source is dropped
PerformEntropySweep(timing, cryptoAvailable, crypto) ==
    <<timing>> \o (IF cryptoAvailable THEN <<crypto>> ELSE << >>)

\* the successful results of a sweep, in order
RECURSIVE Successful(_)
Successful(rs) ==
    IF rs = << >> THEN << >>
    ELSE (IF Head(rs).success THEN <<Head(rs)>> ELSE << >>) \o Successful(Tail(rs))

RECURSIVE SumBits(_)
SumBits(rs) == IF rs = << >> THEN 0 ELSE Head(rs).estimatedBits + SumBits(Tail(rs))

\* one iteration that sweeps: the sweep takes d ms, its successes are
\* accumulated, and the loop sleeps 10 ms while the target is not met
PoolSweep(config, p, sweepResults, d) ==
    LET ok   == Successful(sweepResults)
        bits == p.totalBits + SumBits(ok)
    IN  [elapsed    |-> p.elapsed + d + (IF bits < config.targetBits THEN 10 ELSE 0),
         allResults |-> p.allResults \o [i \in 1..Len(ok) |-> ok[i].name],
         totalBits  |-> bits]

\* every pool state one sweep can lead to
PoolSweeps(config, p) ==
    { PoolSweep(config, p, PerformEntropySweep(timing, cryptoAvailable, crypto), d) :
        timing \in TimingOutcomes(config),
        crypto \in CryptoOutcomes(config),
        cryptoAvailable \in BOOLEAN,
        d \in { SweepQuickMs, TimingTimeout(config.maxTimeMs - p.elapsed) } }

\* the pool states in which the loop can leave, from a set of running ones
RECURSIVE PoolRuns(_, _, _)
PoolRuns(config, running, left) ==
    IF running = {} THEN left
    ELSE LET leaving == { p \in running : PoolTimeUp(config, p) \/ PoolSatisfied(config, p) }
         IN  PoolRuns(config,
                      UNION { PoolSweeps(config, p) : p \in running \ leaving },
                      left \cup leaving)

\* a pool that treats the target as a requirement: short of it when the time
\* is up, it throws
PoolOutcome_TargetRequired(level, config, p, outputBytes, call) ==
    IF PoolTimeUp(config, p) /\ p.totalBits < config.targetBits
    THEN [threw |-> TRUE,
          error |-> [name |-> "EntropyCollectionFailedError",
                     maxTimeMs |-> config.maxTimeMs, call |-> call],
          bytes |-> [len |-> 0, origin |-> <<"empty">>],
          stats |-> [totalBits |-> 0, level |-> level]]
    ELSE [threw |-> FALSE,
          error |-> [name |-> "none"],
          bytes |-> ExpandEntropy(MixEntropy(p.allResults, call), outputBytes),
          stats |-> [totalBits |-> p.totalBits, level |-> level]]

\* collectEntropy after its loop: EntropyCollectionFailedError when the time
\* is up with no result at all, else the results mixed and expanded
PoolOutcome(level, config, p, outputBytes, call) ==
    IF PoolTimeUp(config, p) /\ Len(p.allResults) = 0
    THEN [threw |-> TRUE,
          error |-> [name |-> "EntropyCollectionFailedError",
                     maxTimeMs |-> config.maxTimeMs, call |-> call],
          bytes |-> [len |-> 0, origin |-> <<"empty">>],
          stats |-> [totalBits |-> 0, level |-> level]]
    ELSE [threw |-> FALSE,
          error |-> [name |-> "none"],
          bytes |-> ExpandEntropy(MixEntropy(p.allResults, call), outputBytes),
          stats |-> [totalBits |-> p.totalBits, level |-> level]]

\* collectEntropy({ level, outputBytes }): everything the call-th call can
\* resolve to or reject with
CollectEntropy(level, outputBytes, call) ==
    LET config == ENTROPY_LEVEL_CONFIGS[level]
    IN  { PoolOutcome(level, config, p, outputBytes, call) :
            p \in PoolRuns(config, {PoolStart}, {}) }

\* a controller that asks the pool for a single hash block
FlipCoinEntropy_OneBlock(level, call) == CollectEntropy(level, BlockSize, call)

\* what flipCoin asks of the pool: the level only, so the default 64 bytes
FlipCoinEntropy(level, call) == CollectEntropy(level, DefaultOutputBytes, call)

NoResult == [outcome |-> "none"]

NoError == [name |-> "none"]

NoEntropy == [bytes |-> [len |-> 0, origin |-> <<"empty">>],
              stats |-> [totalBits |-> 0, level |-> "none"]]

VARIABLES
    pc,                     \* where the call is: idle, collecting (awaiting
                            \*   collectEntropy), simulating, settled (left the
                            \*   loop by break), returned, threw
    options,                \* the argument of flipCoin
    entropyLevel, coinConfig, timeout, maxEdgeRetries,
    retries,
    entropyResult,          \* what collectEntropy resolved to for this attempt
    initialState,
    body, inverseInertiaTensor,
    bounceCount, consecutiveStableCount,
    elapsedSteps,           \* elapsedSimulationTime, as the number of += dt * 1000
    runTime,                \* endTime - startTime of the last loop
    result, error,          \* what the call resolved or rejected with
    \* history
    collectCalls,           \* calls of collectEntropy so far
    poolError,              \* what collectEntropy last rejected with
    steppedCall,            \* the collectEntropy call of the attempt last stepped
    simSteps,               \* steps of the current attempt
    lastUnstableStep,       \* the last step of it on which isStable was false
    collidingSteps,         \* the steps of it on which the detector reported
                            \*   colliding
    earlierCollided,        \* whether it did on a step of an earlier attempt
                            \*   of the call
    faceCalls,              \* calls of determineFace
    edgeCount               \* how many of them returned EDGE

vars == << pc, options, entropyLevel, coinConfig, timeout, maxEdgeRetries,
           retries, entropyResult, initialState, body,
           inverseInertiaTensor, bounceCount, consecutiveStableCount,
           elapsedSteps, runTime, result, error, collectCalls, poolError,
           steppedCall, simSteps, lastUnstableStep, collidingSteps,
           earlierCollided, faceCalls, edgeCount >>

callVars == << options, entropyLevel, coinConfig, timeout, maxEdgeRetries >>

attemptVars == << entropyResult, initialState, body, inverseInertiaTensor,
                  bounceCount, consecutiveStableCount, elapsedSteps >>

stepHistory == << steppedCall, simSteps, lastUnstableStep, collidingSteps,
                 earlierCollided >>

(***************************************************************************)
(* State of the other entry points.  debugFlipCoin, the detectors probed   *)
(* on their own and concurrent flipCoin calls each have a specification of *)
(* their own further down; under Spec their state stays as it starts.      *)
(***************************************************************************)

VARIABLES
    debugRuns,              \* the runs of debugFlipCoin, by run
    probe,                  \* a detector called on its own: input and answer
    calls,                  \* concurrent flipCoin calls: frames and histories
    pool                    \* a collectEntropy call followed through its loop

otherVars == << debugRuns, probe, calls, pool >>

allVars == << vars, otherVars >>

\* two runs of debugFlipCoin: a run and its replay
Runs == {1, 2}

\* a run that was not called yet
DebugRunIdle ==
    [pc |-> "idle", options |-> EmptyObject, coinConfig |-> defaultCoinConfig,
     timeout |-> DefaultTimeout,
     seedUsed |-> [len |-> 0, origin |-> <<"empty">>],
     entropyBytes |-> [len |-> 0, origin |-> <<"empty">>],
     generatedState |-> EmptyObject, initialState |-> EmptyObject,
     startedFrom |-> EmptyObject,
     body |-> InitialBody, bounceCount |-> 0, consecutiveStableCount |-> 0,
     elapsedSteps |-> 0, collectCalls |-> 0, attempts |-> 0, faceCalls |-> 0,
     result |-> NoResult, error |-> NoError]

DebugIdle == [r \in Runs |-> DebugRunIdle]

NoProbe == [fn |-> "none"]

\* the flipCoin calls in flight together
Callers == {1, 2}

\* the locals of a flipCoin call that was not made yet
IdleFrame ==
    [pc |-> "idle", options |-> EmptyObject, retries |-> 0,
     pending |-> 0, ownCollects |-> {}, edges |-> 0,
     entropyResult |-> NoEntropy, initialState |-> EmptyObject,
     result |-> NoResult, error |-> NoError]

\* no call made: the module's launch parameters as declared, no
\* collectEntropy call yet
NoCalls ==
    [launch |-> DEFAULT_LAUNCH_PARAMETERS, collectCalls |-> 0,
     frames |-> [c \in Callers |-> IdleFrame]]

\* collectEntropy not called yet: the loop's locals as PoolStart has them,
\* nothing swept, nothing resolved
PoolIdle ==
    [pc |-> "idle", options |-> EmptyObject, level |-> "standard",
     outputBytes |-> 0,
     locals |-> [elapsed |-> 0, allResults |-> << >>, totalBits |-> 0],
     sweeps |-> 0, sweepStartedAt |-> 0, timingTimeout |-> 0,
     cryptoTimeout |-> 0, successes |-> 0, failures |-> 0,
     result |-> NoEntropy, error |-> NoError]

Init ==
    /\ debugRuns = DebugIdle
    /\ probe = NoProbe
    /\ calls = NoCalls
    /\ pool = PoolIdle
    /\ pc = "idle"
    /\ options = EmptyObject
    /\ entropyLevel = "standard"
    /\ coinConfig = defaultCoinConfig
    /\ timeout = DefaultTimeout
    /\ maxEdgeRetries = DefaultMaxEdgeRetries
    /\ retries = 0
    /\ entropyResult = NoEntropy
    /\ initialState = EmptyObject
    /\ body = InitialBody
    /\ inverseInertiaTensor = Null
    /\ bounceCount = 0
    /\ consecutiveStableCount = 0
    /\ elapsedSteps = 0
    /\ runTime = 0
    /\ result = NoResult
    /\ error = NoError
    /\ collectCalls = 0
    /\ poolError = NoError
    /\ steppedCall = 0
    /\ simSteps = 0
    /\ lastUnstableStep = 0
    /\ collidingSteps = 0
    /\ earlierCollided = FALSE
    /\ faceCalls = 0
    /\ edgeCount = 0

\* const { entropyLevel = 'standard', coinConfig = {}, timeout = 10000,
\*         maxEdgeRetries = 5 } = options;  then { ...defaultCoinConfig, ...user }
ResolveOptions(o) ==
    [entropyLevel   |-> OrDefault(o, "entropyLevel", "standard"),
     coinConfig     |-> Spread(defaultCoinConfig, OrDefault(o, "coinConfig", EmptyObject)),
     timeout        |-> OrDefault(o, "timeout", DefaultTimeout),
     maxEdgeRetries |-> OrDefault(o, "maxEdgeRetries", DefaultMaxEdgeRetries)]

\* flipCoin(options): resolve the options and enter the retry loop, whose
\* first statement awaits collectEntropy
FlipCoin ==
    /\ UNCHANGED otherVars
    /\ pc = "idle"
    /\ \E o \in FlipOptionsInputs :
        /\ options' = o
        /\ entropyLevel' = ResolveOptions(o).entropyLevel
        /\ coinConfig' = ResolveOptions(o).coinConfig
        /\ timeout' = ResolveOptions(o).timeout
        /\ maxEdgeRetries' = ResolveOptions(o).maxEdgeRetries
    /\ retries' = 0
    /\ collectCalls' = collectCalls + 1
    /\ pc' = "collecting"
    /\ UNCHANGED << attemptVars, runTime, result, error, poolError, stepHistory,
                    faceCalls, edgeCount >>

\* a controller that catches the pool's rejection and throws its own error
Rethrow_Wrapped(e) == [name |-> "Error", cause |-> e]

\* what flipCoin does with a rejection of collectEntropy: nothing, the await
\* rethrows it to the caller
Rethrow(e) == e

\* collectEntropy rejects: flipCoin rejects with the same error.
EntropyCollectionFailed ==
    /\ UNCHANGED otherVars
    /\ pc = "collecting"
    /\ \E r \in FlipCoinEntropy(entropyLevel, collectCalls) :
        /\ r.threw
        /\ poolError' = r.error
        /\ error' = Rethrow(r.error)
    /\ pc' = "threw"
    /\ UNCHANGED << callVars, retries, attemptVars, runTime, result,
                    collectCalls, stepHistory, faceCalls, edgeCount >>

\* new RigidBody(...): the inverse inertia tensor, Null when the constructor
\* throws because inverse() reported the tensor singular
RigidBodyInverseInertia(cfg) == Inverse(InertiaTensor(cfg))

\* a controller that keeps the bytes of its first collectEntropy call
AttemptBytes_Cached(r, previous) ==
    IF previous.bytes.len > 0 THEN previous.bytes ELSE r.bytes

\* the bytes an attempt samples its initial state from
AttemptBytes(r, previous) == r.bytes

\* a bounce counter declared outside the retry loop: it carries on from the
\* attempt before
AttemptBounceCount_Carried(previous) == previous

\* the bounce counter an attempt starts with: `let bounceCount = 0` is inside
\* the retry loop
AttemptBounceCount(previous) == 0

\* collectEntropy resolves; flipCoin samples the initial state from the
\* bytes, builds the rigid body (which can throw) and resets the loop counters.
BeginAttempt ==
    /\ UNCHANGED otherVars
    /\ pc = "collecting"
    /\ \E r \in FlipCoinEntropy(entropyLevel, collectCalls) :
        /\ ~r.threw
        /\ entropyResult' = [bytes |-> r.bytes, stats |-> r.stats]
        /\ initialState' = GenerateInitialCondition(AttemptBytes(r, entropyResult),
                                                    DEFAULT_LAUNCH_PARAMETERS)
    /\ inverseInertiaTensor' = RigidBodyInverseInertia(coinConfig)
    /\ IF inverseInertiaTensor' = Null
       THEN /\ error' = [name |-> "Error", message |-> "Inertia tensor is singular"]
            /\ pc' = "threw"
       ELSE /\ error' = error
            /\ pc' = "simulating"
    /\ body' = InitialBody
    /\ bounceCount' = AttemptBounceCount(bounceCount)
    /\ consecutiveStableCount' = 0
    /\ elapsedSteps' = 0
    /\ simSteps' = 0
    /\ lastUnstableStep' = 0
    /\ collidingSteps' = 0
    /\ earlierCollided' = (earlierCollided \/ collidingSteps > 0)
    /\ UNCHANGED << callVars, retries, runTime, result, collectCalls, poolError,
                    steppedCall, faceCalls, edgeCount >>

\* a counter that an unstable step leaves as it is
NextStableCount_NoReset(count, stable) == IF stable THEN count + 1 ELSE count

\* the stability counter after a step
NextStableCount(count, stable) == IF stable THEN count + 1 ELSE 0

\* a loop that checks stability before it responds to the collision
StabilityInput_BeforeResponse(damped, responded) == damped

\* the body isStable is called on: the one handleCollision has just left
StabilityInput(damped, responded) == responded

\* One iteration of the simulation loop: integrate, near-ground damping,
\* collision, stability count, and either break or advance the elapsed time.
SimulationStep ==
    /\ UNCHANGED otherVars
    /\ pc = "simulating"
    /\ LoopCondition(elapsedSteps, timeout)
    /\ \E integrated \in IntegratedBodies, after \in ImpactResponses :
        LET damped    == GroundDamping(integrated, coinConfig)
            collision == DetectCollision(damped)
            b         == ApplyCollisionResponse(damped, collision, after)
            stable    == IsStable(StabilityInput(damped, b))
            count     == NextStableCount(consecutiveStableCount, stable)
        IN  /\ body' = b
            /\ bounceCount' = IF collision.colliding THEN bounceCount + 1 ELSE bounceCount
            /\ consecutiveStableCount' = count
            /\ IF count >= maxConsecutiveStableFrames
               THEN pc' = "settled" /\ elapsedSteps' = elapsedSteps
               ELSE pc' = pc /\ elapsedSteps' = elapsedSteps + 1
            /\ lastUnstableStep' = IF stable THEN lastUnstableStep ELSE simSteps + 1
            /\ collidingSteps' = IF collision.colliding THEN collidingSteps + 1
                                  ELSE collidingSteps
    /\ simSteps' = simSteps + 1
    /\ steppedCall' = collectCalls
    /\ UNCHANGED << callVars, retries, entropyResult, initialState,
                    inverseInertiaTensor, runTime, result, error, collectCalls,
                    poolError, earlierCollided, faceCalls, edgeCount >>

\* a controller that evaluates the face once any stable frame was counted
TimedOut_OnlyIfNeverStable(count) == count = 0

\* whether the attempt ends in SimulationTimeoutError
TimedOut(count) == count < maxConsecutiveStableFrames

\* an off-by-one retry limit
RetriesExhausted_Early(n, limit) == n >= limit

\* whether the retries are used up after an EDGE
RetriesExhausted(n, limit) == n > limit

\* a controller that returns whatever face was evaluated
IsRetryFace_Never(face) == FALSE

\* whether the evaluated face makes the controller retry instead of return
IsRetryFace(face) == face = "EDGE"

\* a result that reports the attempts made instead of the retries
ReportedRetryCount_Attempts(n) == n + 1

\* stats.retryCount of the returned result: the retries counter as it stands
ReportedRetryCount(n) == n

\* The loop is left (break, or its condition is false): measure the run
\* time, throw on timeout, else evaluate the face; EDGE retries with a new
\* collectEntropy call or gives up, HEADS and TAILS are returned.
AfterLoop ==
    /\ UNCHANGED otherVars
    /\ pc = "settled" \/ (pc = "simulating" /\ ~LoopCondition(elapsedSteps, timeout))
    /\ \E rt \in { RunTimeFast, RunTimeSlow } :
        IF TimedOut(consecutiveStableCount)
        THEN /\ runTime' = rt
             /\ error' = [name |-> "SimulationTimeoutError",
                          timeoutMs |-> timeout, elapsedMs |-> rt]
             /\ pc' = "threw"
             /\ UNCHANGED << retries, result, collectCalls, faceCalls, edgeCount >>
        ELSE LET face == DetermineFace(body) IN
             /\ faceCalls' = faceCalls + 1
             /\ edgeCount' = IF face = "EDGE" THEN edgeCount + 1 ELSE edgeCount
             /\ IF IsRetryFace(face)
                THEN /\ retries' = retries + 1
                     /\ result' = result
                     \* runTime is a constant of the loop body: `continue` drops it
                     /\ runTime' = IF RetriesExhausted(retries', maxEdgeRetries)
                                   THEN rt ELSE 0
                     /\ IF RetriesExhausted(retries', maxEdgeRetries)
                        THEN /\ error' = [name |-> "EdgeRetryExhaustedError",
                                          maxRetries |-> maxEdgeRetries]
                             /\ pc' = "threw"
                             /\ collectCalls' = collectCalls
                        ELSE /\ error' = error
                             /\ pc' = "collecting"
                             /\ collectCalls' = collectCalls + 1
                ELSE /\ runTime' = rt
                     /\ result' = [outcome |-> face,
                                   stats |-> [simulationTime |-> rt,
                                              entropyBitsUsed |-> entropyResult.stats.totalBits,
                                              bounceCount |-> bounceCount,
                                              retryCount |-> ReportedRetryCount(retries)]]
                     /\ pc' = "returned"
                     /\ UNCHANGED << retries, error, collectCalls >>
    /\ UNCHANGED << callVars, attemptVars, poolError, stepHistory >>

Next ==
    \/ FlipCoin
    \/ EntropyCollectionFailed
    \/ BeginAttempt
    \/ SimulationStep
    \/ AfterLoop

Spec == Init /\ [][Next]_vars

(***************************************************************************)
(* Properties of flipCoin                                                  *)
(***************************************************************************)

\* the collectEntropy calls whose bytes the current initial state was
\* sampled from
SeedCalls ==
    IF initialState = EmptyObject THEN {}
    ELSE { initialState.uniforms[i].origin[2][2] :
             i \in { j \in 1..Len(initialState.uniforms) :
                       initialState.uniforms[j].from = "bytes" } }

\* the uniforms of the current initial state that Math.random supplied
FallbackUniforms ==
    IF initialState = EmptyObject THEN {}
    ELSE { i \in 1..Len(initialState.uniforms) :
             initialState.uniforms[i].from = "Math.random" }

\* the trailing run of steps of the attempt on which isStable was true
StableRun == simSteps - lastUnstableStep

FlipCoinErrors ==
    { "SimulationTimeoutError", "EdgeRetryExhaustedError",
      "EntropyCollectionFailedError", "Error" }

\* C1: a call of flipCoin that has ended either returned a complete result
\* whose outcome is HEADS or TAILS and threw nothing, or threw exactly one
\* error (simulation timeout, edge retries exhausted, entropy collection
\* failed, singular inertia tensor) and returned nothing; EDGE is never
\* returned, and before the end there is neither a result nor an error.
C1_HeadsTailsOrOneError ==
    /\ pc = "returned" =>
         /\ result.outcome \in {"HEADS", "TAILS"}
         /\ DOMAIN result.stats =
              {"simulationTime", "entropyBitsUsed", "bounceCount", "retryCount"}
         /\ error = NoError
    /\ pc = "threw" =>
         /\ result = NoResult
         /\ error.name \in FlipCoinErrors
         /\ error.name = "Error" => error.message = "Inertia tensor is singular"
    /\ pc \notin {"returned", "threw"} => result = NoResult /\ error = NoError
    /\ result.outcome # "EDGE"

C1_Witness ==
    /\ pc = "returned"
    /\ result.outcome = "TAILS"
    /\ edgeCount = 1

\* C2: the face is evaluated, and an outcome returned, only when isStable was
\* true on each of the 10 most recent steps of the attempt; the counter is
\* the length of the trailing run of stable steps, so a step that is not
\* stable puts it back to 0.
C2_TenConsecutiveStableSteps ==
    /\ consecutiveStableCount = StableRun
    /\ ( \/ pc \in {"settled", "returned"}
         \/ error.name = "EdgeRetryExhaustedError"
         \/ (pc = "collecting" /\ retries > 0) )
       => /\ StableRun >= maxConsecutiveStableFrames
          /\ simSteps >= maxConsecutiveStableFrames

C2_Witness ==
    /\ pc = "returned"
    /\ lastUnstableStep > 0
    /\ StableRun = maxConsecutiveStableFrames

\* C3: an attempt whose loop ends by the timeout before 10 consecutive stable
\* steps were counted throws SimulationTimeoutError: the face is not
\* evaluated for that attempt, nothing is returned and no further attempt is
\* made; and an attempt that simulated and ended short of 10 ends in no
\* other way.
C3_TimeoutThrows ==
    /\ error.name = "SimulationTimeoutError" =>
         /\ pc = "threw"
         /\ result = NoResult
         /\ consecutiveStableCount < maxConsecutiveStableFrames
         /\ ~LoopCondition(elapsedSteps, timeout)
         /\ faceCalls = retries
         /\ collectCalls = retries + 1
         /\ error.timeoutMs = timeout
    /\ ( /\ pc \in {"returned", "threw"}
         /\ steppedCall = collectCalls
         /\ consecutiveStableCount < maxConsecutiveStableFrames )
       => error.name = "SimulationTimeoutError"

C3_Witness ==
    /\ error.name = "SimulationTimeoutError"
    /\ consecutiveStableCount > 0
    /\ retries = 1

\* C4: the timeout bounds the wall-clock duration of an attempt, because the
\* loop compares the wall-clock time elapsed at every step: an attempt that
\* settled ran for no longer than the timeout, and one that threw
\* SimulationTimeoutError ran for at least the timeout.
C4_TimeoutBoundsWallClock ==
    /\ pc = "returned" => result.stats.simulationTime <= timeout
    /\ error.name = "SimulationTimeoutError" => error.elapsedMs >= timeout

\* C5: each attempt begins with one new call of collectEntropy and is seeded
\* by the bytes of that call alone, so attempt k + 1 follows call k + 1 and a
\* result with retryCount = k was preceded by exactly k + 1 calls.
C5_OneCollectionPerAttempt ==
    /\ pc \in {"collecting", "simulating", "settled", "returned"} =>
         collectCalls = retries + 1
    /\ pc \in {"simulating", "settled", "returned"} =>
         /\ SeedCalls = {collectCalls}
         /\ entropyResult.bytes.origin = <<"expand", <<"sha256", collectCalls>>>>
    /\ pc = "returned" => collectCalls = result.stats.retryCount + 1

C5_Witness ==
    /\ pc = "returned"
    /\ result.stats.retryCount = 1
    /\ SeedCalls = {2}

\* C6: with maxEdgeRetries = N, a call whose settled attempts all evaluate to
\* EDGE makes exactly N + 1 attempts and then throws EdgeRetryExhaustedError;
\* no call makes more than N + 1 attempts.
C6_EdgeRetriesExhausted ==
    /\ pc # "idle" => collectCalls <= maxEdgeRetries + 1
    /\ error.name = "EdgeRetryExhaustedError" =>
         /\ pc = "threw"
         /\ result = NoResult
         /\ collectCalls = maxEdgeRetries + 1
         /\ faceCalls = maxEdgeRetries + 1
         /\ edgeCount = faceCalls
         /\ error.maxRetries = maxEdgeRetries
    /\ (pc \in {"returned", "threw"} /\ edgeCount = maxEdgeRetries + 1) =>
         error.name = "EdgeRetryExhaustedError"
    /\ (pc = "collecting" /\ retries > 0) => edgeCount = retries

C6_Witness ==
    /\ error.name = "EdgeRetryExhaustedError"
    /\ maxEdgeRetries = 1
    /\ collectCalls = 2

\* C7: when collectEntropy rejects, flipCoin rejects with that same error:
\* the attempt takes no simulation step, nothing is returned, and no initial
\* state is sampled for it, from Math.random or from anything else.
C7_EntropyFailurePropagates ==
    poolError # NoError =>
        /\ pc = "threw"
        /\ error = poolError
        /\ error.name = "EntropyCollectionFailedError"
        /\ error.call = collectCalls
        /\ result = NoResult
        /\ steppedCall < collectCalls
        /\ collectCalls \notin SeedCalls
        /\ FallbackUniforms = {}

C7_Witness ==
    /\ poolError # NoError
    /\ error = poolError
    /\ collectCalls = 2
    /\ steppedCall = 1

\* C8: with the built-in pool every uniform the sampler consumes is read
\* from the collected bytes: the ten reads stay inside the 64 bytes, so the
\* cursor is never exhausted and Math.random is never used.
C8_UniformsFromCollectedBytes ==
    initialState # EmptyObject =>
        /\ Len(initialState.uniforms) = GaussiansPerSample * UniformsPerGaussian
        /\ FallbackUniforms = {}
        /\ \A i \in 1..Len(initialState.uniforms) :
             /\ initialState.uniforms[i].from = "bytes"
             /\ initialState.uniforms[i].offset <= DefaultOutputBytes

C8_Witness ==
    /\ pc = "simulating"
    /\ entropyLevel = "standard"
    /\ entropyResult.bytes.len = DefaultOutputBytes
    /\ initialState.uniforms[10].from = "bytes"
    /\ initialState.uniforms[10].at = 36

\* C9: the coin properties supplied in the documented option `coin` are the
\* ones simulated, each missing one taking its default.
C9_CoinOptionSimulated ==
    (pc # "idle" /\ Has(options, "coin")) =>
        coinConfig = Spread(defaultCoinConfig, options.coin)

\* C10: Mat3.inverse inverts tensors whose determinant is as small as 1e-24,
\* so building the rigid body from the inertia tensor of the default coin
\* does not fail as singular.
C10_DefaultCoinNotSingular ==
    (pc # "idle" /\ coinConfig = defaultCoinConfig) =>
        /\ error.name # "Error"
        /\ pc \in {"simulating", "settled", "returned"} =>
             inverseInertiaTensor # Null


(***************************************************************************)
(* debugFlipCoin (evaluator/types/face.ts): one attempt, optionally from a *)
(* caller's seed and with per-field overrides of the initial state.        *)
(*                                                                         *)
(* Two runs are followed side by side: a run, and a second run called with *)
(* the same options and the seed the first one used (its own when it was   *)
(* given one, the collected bytes it reports as `seed` otherwise).  The    *)
(* runs share no state, so the order in which their steps are taken is     *)
(* immaterial; they are stepped together.  integrate, handleCollision and  *)
(* isStable read and write the body only (no clock, no Math.random, no     *)
(* module state): two bodies built from equal states with equal coins go   *)
(* through the same states, and only then.                                 *)
(***************************************************************************)

\* how many different values Math.random() can return in the model
MathRandomDraws == 2

\* the uniforms of a sequence, those that fell back to Math.random() carrying
\* the value it returned
Drawn(us, mathRandom) ==
    [i \in DOMAIN us |->
        IF us[i].from = "Math.random"
        THEN [from |-> "Math.random", offset |-> us[i].offset, value |-> mathRandom]
        ELSE us[i]]

\* generateInitialCondition as one call sees it: the four fields of the
\* state, a Math.random() fallback returning `mathRandom`
SampleInitialCondition(entropy, launchParams, mathRandom) ==
    LET g == GenerateInitialCondition(entropy, launchParams)
    IN  [position        |-> g.position,
         orientation     |-> g.orientation,
         linearVelocity  |-> [gaussian |-> Drawn(g.linearVelocity.gaussian, mathRandom)],
         angularVelocity |-> [gaussian |-> Drawn(g.angularVelocity.gaussian, mathRandom),
                              axis     |-> Drawn(g.angularVelocity.axis, mathRandom)]]

\* a fromSeed that returns the digest without expanding it
FromSeed_OneBlock(seed, outputBytes) == MixEntropy(<<seed>>, seed.origin)

\* fromSeed(seed, outputBytes = 64): mixEntropy([seed]) then expandEntropy
FromSeed(seed, outputBytes) ==
    ExpandEntropy(MixEntropy(<<seed>>, seed.origin), outputBytes)

\* the seeds callers pass: sixteen bytes, and an empty array (an object, so
\* truthy in `if (providedSeed)`)
SeedInputs ==
    { [len |-> 16, origin |-> <<"seed", 1>>],
      [len |-> 0,  origin |-> <<"seed", 0>>] }

\* initialConditions overrides, in the units of the body: positions (1e-5 m)
\* and quaternions (w, x, y, z) as the launch parameters give them,
\* velocities (1e-3 m/s, 1e-3 rad/s) by component
OverrideInputs ==
    { [position |-> <<0, 5000, 0>>],
      [orientation |-> <<0, 1, 0, 0>>,
       linearVelocity |-> [x |-> 0, y |-> -2000, z |-> 0]],
      [position |-> <<0, 5000, 0>>, orientation |-> <<1, 0, 0, 0>>,
       linearVelocity |-> [x |-> 0, y |-> 0, z |-> 0],
       angularVelocity |-> [x |-> 0, y |-> 0, z |-> 0]] }

\* a coin whose inertia tensor the RigidBody constructor accepts
HeavyCoin == [mass |-> Dec(1000, 0)]

\* the option objects passed to debugFlipCoin
DebugOptionsInputs ==
    { EmptyObject,
      [timeout |-> TimeoutLong, coin |-> HeavyCoin],
      [timeout |-> TimeoutLong, coin |-> HeavyCoin, entropyLevel |-> "fast"],
      [timeout |-> TimeoutShort, coin |-> HeavyCoin,
       seed |-> [len |-> 16, origin |-> <<"seed", 1>>]] }
    \cup { [timeout |-> TimeoutLong, coin |-> HeavyCoin, seed |-> s] :
             s \in SeedInputs }
    \cup { [timeout |-> TimeoutLong, coin |-> HeavyCoin,
            seed |-> [len |-> 16, origin |-> <<"seed", 1>>],
            initialConditions |-> ic] : ic \in OverrideInputs }

\* const { entropyLevel = 'standard', coin: userCoinConfig = {},
\*         timeout = 10000, seed, initialConditions } = options
ResolveDebugOptions(o) ==
    [entropyLevel |-> OrDefault(o, "entropyLevel", "standard"),
     coinConfig   |-> Spread(defaultCoinConfig, OrDefault(o, "coin", EmptyObject)),
     timeout      |-> OrDefault(o, "timeout", DefaultTimeout)]

\* an override that is used only when the caller supplied all four fields
OverrideOr_AllOrNothing(o, f, generated) ==
    IF Has(o, "initialConditions")
       /\ DOMAIN o.initialConditions
            = {"position", "orientation", "linearVelocity", "angularVelocity"}
    THEN o.initialConditions[f] ELSE generated[f]

\* overrideInitialConditions?.f ?? generatedState.f
OverrideOr(o, f, generated) ==
    IF Has(o, "initialConditions") /\ Has(o.initialConditions, f)
    THEN o.initialConditions[f] ELSE generated[f]

\* const initialState = { position: ..., orientation: ..., ... }
ResolveInitialState(o, generated) ==
    [f \in {"position", "orientation", "linearVelocity", "angularVelocity"} |->
        OverrideOr(o, f, generated)]

\* Math.sqrt(x*x + y*y + z*z), to the unit
Magnitude(v) ==
    LET sq == v.x * v.x + v.y * v.y + v.z * v.z
    IN  CHOOSE r \in 0..(Abs(v.x) + Abs(v.y) + Abs(v.z)) :
            r * r <= sq /\ (r + 1) * (r + 1) > sq

\* orientation.rotateVector(Vec3.UP).y of a unit quaternion: 1 - 2(xx + zz)
Alignment(q) == 1000 * (1 - 2 * (q[2] * q[2] + q[4] * q[4]))

\* half the thickness of the default coin, 0.000875 m, in 1e-5 m (rounded)
HalfThickness == 88

\* the body new RigidBody(...) holds, as the quantities the detectors read;
\* a sampled velocity stands at its mean
StartBody(state) ==
    [y            |-> state.position[2],
     penetration  |-> HalfThickness - state.position[2],
     alignment    |-> Alignment(state.orientation),
     linearSpeed  |-> IF Has(state.linearVelocity, "gaussian")
                      THEN InitialBody.linearSpeed
                      ELSE Magnitude(state.linearVelocity),
     angularSpeed |-> IF Has(state.angularVelocity, "gaussian")
                      THEN InitialBody.angularSpeed
                      ELSE Magnitude(state.angularVelocity)]

\* a test that takes an empty seed for no seed
ProvidedSeed_NonEmpty(o) == Has(o, "seed") /\ o.seed.len > 0

\* if (providedSeed): any array is truthy, only an absent seed is not
ProvidedSeed(o) == Has(o, "seed")

\* debugFlipCoin(options) up to its first await: fromSeed when a seed was
\* given, collectEntropy otherwise
DebugCalled(run, o) ==
    [run EXCEPT !.options      = o,
                !.coinConfig   = ResolveDebugOptions(o).coinConfig,
                !.timeout      = ResolveDebugOptions(o).timeout,
                !.seedUsed     = IF ProvidedSeed(o) THEN o.seed ELSE @,
                !.collectCalls = IF ProvidedSeed(o) THEN @ ELSE @ + 1,
                !.pc           = IF ProvidedSeed(o) THEN "seeding" ELSE "collecting"]

\* the first run is called
DebugFlipCoin ==
    /\ debugRuns[1].pc = "idle"
    /\ \E o \in DebugOptionsInputs :
        debugRuns' = [debugRuns EXCEPT ![1] = DebugCalled(@, o)]
    /\ UNCHANGED << vars, probe, calls, pool >>

\* the options of a replay: those of the run, with the seed it used
ReplayOptions(run) == [seed |-> run.seedUsed] @@ run.options

\* the second run is called with the options and the seed of the first
DebugReplay ==
    /\ debugRuns[2].pc = "idle"
    /\ debugRuns[1].pc = "seeding"
    /\ debugRuns' = [debugRuns EXCEPT ![2] = DebugCalled(@, ReplayOptions(debugRuns[1]))]
    /\ UNCHANGED << vars, probe, calls, pool >>

\* collectEntropy({ level: entropyLevel }) of run r
DebugEntropy(run, r) ==
    CollectEntropy(ResolveDebugOptions(run.options).entropyLevel, DefaultOutputBytes, r)

\* collectEntropy rejects: so does debugFlipCoin
DebugCollectionFailed(r) ==
    /\ debugRuns[r].pc = "collecting"
    /\ \E e \in DebugEntropy(debugRuns[r], r) :
        /\ e.threw
        /\ debugRuns' = [debugRuns EXCEPT ![r].error = e.error, ![r].pc = "threw"]
    /\ UNCHANGED << vars, probe, calls, pool >>

\* collectEntropy resolves: its bytes are the seed of the run
DebugCollected(r) ==
    /\ debugRuns[r].pc = "collecting"
    /\ \E e \in DebugEntropy(debugRuns[r], r) :
        /\ ~e.threw
        /\ debugRuns' = [debugRuns EXCEPT ![r].seedUsed = e.bytes, ![r].pc = "seeding"]
    /\ UNCHANGED << vars, probe, calls, pool >>

\* v.clone()
Clone(v) == v

\* fromSeed resolves: the initial state is sampled and overridden, and the
\* rigid body is built from clones of it (which can throw)
DebugBegin(r) ==
    /\ debugRuns[r].pc = "seeding"
    /\ debugRuns[2].pc # "idle"
    /\ \E mathRandom \in 1..MathRandomDraws :
        LET run       == debugRuns[r]
            bytes     == FromSeed(run.seedUsed, DefaultOutputBytes)
            generated == SampleInitialCondition(bytes, DEFAULT_LAUNCH_PARAMETERS, mathRandom)
            state     == ResolveInitialState(run.options, generated)
            singular  == RigidBodyInverseInertia(run.coinConfig) = Null
        IN  debugRuns' = [debugRuns EXCEPT ![r] =
                [run EXCEPT
                    !.entropyBytes   = bytes,
                    !.generatedState = generated,
                    !.initialState   = state,
                    !.startedFrom    = IF singular THEN @
                                       ELSE [f \in DOMAIN state |-> Clone(state[f])],
                    !.body           = IF singular THEN @ ELSE StartBody(state),
                    !.attempts       = IF singular THEN @ ELSE @ + 1,
                    !.error          = IF singular
                                       THEN [name |-> "Error",
                                             message |-> "Inertia tensor is singular"]
                                       ELSE @,
                    !.pc             = IF singular THEN "threw" ELSE "simulating"]]
    /\ UNCHANGED << vars, probe, calls, pool >>

\* one iteration of the loop of a run: integrate, near-ground damping,
\* collision, stability count, break or advance the elapsed time
DebugLoopBody(run, integrated, after) ==
    LET damped    == GroundDamping(integrated, run.coinConfig)
        collision == DetectCollision(damped)
        b         == ApplyCollisionResponse(damped, collision, after)
        count     == IF IsStable(b) THEN run.consecutiveStableCount + 1 ELSE 0
    IN  [run EXCEPT
            !.body = b,
            !.bounceCount = IF collision.colliding THEN @ + 1 ELSE @,
            !.consecutiveStableCount = count,
            !.pc = IF count >= maxConsecutiveStableFrames THEN "settled" ELSE @,
            !.elapsedSteps = IF count >= maxConsecutiveStableFrames THEN @ ELSE @ + 1]

\* the run is inside its loop
DebugLooping(run) ==
    run.pc = "simulating" /\ LoopCondition(run.elapsedSteps, run.timeout)

\* the bodies of the two runs were built from equal states with equal coins
SameStart ==
    /\ debugRuns[1].startedFrom = debugRuns[2].startedFrom
    /\ debugRuns[1].coinConfig = debugRuns[2].coinConfig

\* Every run inside its loop takes one iteration.  What the physics does to
\* a body is a function of the body: runs that started equal are given the
\* same integration result and the same impulse response.
DebugStep ==
    /\ \A r \in Runs : debugRuns[r].pc \notin {"collecting", "seeding"}
    /\ \E r \in Runs : DebugLooping(debugRuns[r])
    /\ \E i1 \in IntegratedBodies, a1 \in ImpactResponses,
          i2 \in IntegratedBodies, a2 \in ImpactResponses :
        /\ SameStart => (i1 = i2 /\ a1 = a2)
        /\ debugRuns' = [r \in Runs |->
              IF DebugLooping(debugRuns[r])
              THEN DebugLoopBody(debugRuns[r],
                                 IF r = 1 THEN i1 ELSE i2, IF r = 1 THEN a1 ELSE a2)
              ELSE debugRuns[r]]
    /\ UNCHANGED << vars, probe, calls, pool >>

\* a debug entry that returns whatever face was evaluated
DebugThrowsOn_Never(face) == FALSE

\* if (face === 'EDGE') throw new Error(...)
DebugThrowsOn(face) == face = "EDGE"

\* The loop of run r is left: measure the run time, throw on timeout, else
\* evaluate the face; EDGE is thrown, HEADS and TAILS are returned.
DebugAfterLoop(r) ==
    /\ \/ debugRuns[r].pc = "settled"
       \/ debugRuns[r].pc = "simulating" /\ ~DebugLooping(debugRuns[r])
    /\ \E rt \in { RunTimeFast, RunTimeSlow } :
        LET run  == debugRuns[r]
            face == DetermineFace(run.body)
        IN  debugRuns' = [debugRuns EXCEPT ![r] =
              IF run.consecutiveStableCount < maxConsecutiveStableFrames
              THEN [run EXCEPT !.error = [name |-> "SimulationTimeoutError",
                                          timeoutMs |-> run.timeout, elapsedMs |-> rt],
                               !.pc = "threw"]
              ELSE IF DebugThrowsOn(face)
              THEN [run EXCEPT !.faceCalls = @ + 1,
                               !.error = [name |-> "Error",
                                          message |-> "Debug simulation landed on EDGE"],
                               !.pc = "threw"]
              ELSE [run EXCEPT !.faceCalls = @ + 1,
                               !.result = [outcome |-> face,
                                           seed |-> run.seedUsed,
                                           initialConditions |-> run.initialState,
                                           stats |-> [simulationTime |-> rt,
                                                      entropyBitsUsed |-> run.entropyBytes.len * 8,
                                                      bounceCount |-> run.bounceCount,
                                                      retryCount |-> 0]],
                               !.pc = "returned"]]
    /\ UNCHANGED << vars, probe, calls, pool >>

NextDebug ==
    \/ DebugFlipCoin
    \/ DebugReplay
    \/ \E r \in Runs : DebugCollectionFailed(r)
    \/ \E r \in Runs : DebugCollected(r)
    \/ \E r \in Runs : DebugBegin(r)
    \/ DebugStep
    \/ \E r \in Runs : DebugAfterLoop(r)

SpecDebug == Init /\ [][NextDebug]_allVars

(***************************************************************************)
(* Properties of debugFlipCoin                                             *)
(***************************************************************************)

\* run 2 was called with the seed and the options of run 1
SameSeedAndOptions ==
    /\ debugRuns[2].pc # "idle"
    /\ debugRuns[2].options = ReplayOptions(debugRuns[1])
    /\ debugRuns[2].options.seed = debugRuns[1].seedUsed

\* the run sampled its initial state
DebugSampled(run) == run.initialState # EmptyObject

\* C11: two debugFlipCoin runs with the same seed and the same options
\* produce the same initialConditions, bounceCount and outcome: once both
\* sampled, their initial states are equal; when one returns, the other
\* cannot end differently (it returns the same outcome, bounce count, seed
\* and initial conditions); and the seed a run reports is the seed it used,
\* so a replay with the reported seed of an unseeded run reproduces it.
C11_SameSeedSameRun ==
    SameSeedAndOptions =>
        /\ (DebugSampled(debugRuns[1]) /\ DebugSampled(debugRuns[2]))
              => debugRuns[1].initialState = debugRuns[2].initialState
        /\ \A r \in Runs :
              debugRuns[r].pc = "returned" => debugRuns[r].result.seed = debugRuns[1].seedUsed
        /\ (debugRuns[1].pc = "returned" /\ debugRuns[2].pc = "returned")
              => /\ debugRuns[1].result.initialConditions
                      = debugRuns[2].result.initialConditions
                 /\ debugRuns[1].result.stats.bounceCount
                      = debugRuns[2].result.stats.bounceCount
                 /\ debugRuns[1].result.outcome = debugRuns[2].result.outcome
        /\ (debugRuns[1].pc = "returned" /\ debugRuns[2].pc = "threw") => FALSE
        /\ (debugRuns[1].pc = "threw" /\ debugRuns[2].pc = "returned") => FALSE

\* an unseeded run that bounced and returned, and its replay with the seed
\* it reported returned too, after a different wall-clock time
C11_Witness ==
    /\ ~Has(debugRuns[1].options, "seed")
    /\ debugRuns[1].pc = "returned"
    /\ debugRuns[2].pc = "returned"
    /\ debugRuns[2].options.seed = debugRuns[1].result.seed
    /\ debugRuns[1].result.stats.bounceCount > 0
    /\ debugRuns[1].result.stats.simulationTime
          # debugRuns[2].result.stats.simulationTime

\* C12: a debugFlipCoin run that was given a seed never calls
\* collectEntropy, uses that seed, derives its entropy bytes from it alone
\* by mixing then expanding (64 bytes: the expansion of the SHA-256 digest
\* of the seed), and reports that seed in its result.
C12_SeedBypassesCollector ==
    \A r \in Runs :
        Has(debugRuns[r].options, "seed") =>
            LET run == debugRuns[r] IN
            /\ run.collectCalls = 0
            /\ run.pc # "collecting"
            /\ run.seedUsed = run.options.seed
            /\ DebugSampled(run) =>
                  run.entropyBytes =
                      [len |-> DefaultOutputBytes,
                       origin |-> <<"expand", <<"sha256", run.options.seed.origin>>>>]
            /\ run.pc = "returned" =>
                  /\ run.result.seed = run.options.seed
                  /\ run.result.stats.entropyBitsUsed = 8 * DefaultOutputBytes

\* the first run was given the empty seed and returned
C12_Witness ==
    /\ Has(debugRuns[1].options, "seed")
    /\ debugRuns[1].options.seed.len = 0
    /\ debugRuns[1].pc = "returned"
    /\ debugRuns[1].collectCalls = 0

\* the error debugFlipCoin throws for a coin on its edge
DebugEdgeError == [name |-> "Error", message |-> "Debug simulation landed on EDGE"]

\* C13: when the settled coin is classified EDGE, debugFlipCoin fails with
\* an error after its single attempt: the run threw that error, it built one
\* body and evaluated one face, it called collectEntropy at most once, and
\* it has no result; no run ever makes a second attempt or returns EDGE.
C13_EdgeIsAnErrorInDebug ==
    \A r \in Runs :
        LET run == debugRuns[r] IN
        /\ run.attempts <= 1
        /\ run.collectCalls <= 1
        /\ run.faceCalls <= 1
        /\ (run.faceCalls = 1 /\ DetermineFace(run.body) = "EDGE") =>
              /\ run.pc = "threw"
              /\ run.error = DebugEdgeError
              /\ run.result = NoResult
        /\ run.error = DebugEdgeError =>
              run.faceCalls = 1 /\ DetermineFace(run.body) = "EDGE"
        /\ run.pc = "returned" => run.result.outcome \in {"HEADS", "TAILS"}

\* an unseeded run settled on its rim and threw
C13_Witness ==
    /\ debugRuns[1].error = DebugEdgeError
    /\ debugRuns[1].collectCalls = 1
    /\ debugRuns[1].consecutiveStableCount >= maxConsecutiveStableFrames
    /\ DetermineFace(debugRuns[1].body) = "EDGE"

ProbeSpan == 5

\* alignments around both ends of the edge band, the middle, and the two
\* flat poses
AlignmentInputs ==
    (-DEFAULT_EDGE_THRESHOLD - ProbeSpan)..(-DEFAULT_EDGE_THRESHOLD + ProbeSpan)
    \cup (DEFAULT_EDGE_THRESHOLD - ProbeSpan)..(DEFAULT_EDGE_THRESHOLD + ProbeSpan)
    \cup (-ProbeSpan)..ProbeSpan
    \cup {-1000, 1000}

\* determineFace(body) of a body with the given alignment
ProbeDetermineFace ==
    /\ probe = NoProbe
    /\ \E a \in AlignmentInputs :
        probe' = [fn |-> "determineFace", alignment |-> a,
                  face |-> DetermineFace([alignment |-> a])]
    /\ UNCHANGED << vars, debugRuns, calls, pool >>

\* penetrations from above the plane to beyond the tolerance (1e-5 m)
PenetrationInputs ==
    (-ProbeSpan)..(PenetrationTolerance + ProbeSpan) \cup {-99912, 100}

\* detectCollision(body) of a body whose lower face center is `p` below y = 0
ProbeDetectCollision ==
    /\ probe = NoProbe
    /\ \E p \in PenetrationInputs :
        probe' = [fn |-> "detectCollision", penetration |-> p,
                  collision |-> DetectCollision([penetration |-> p])]
    /\ UNCHANGED << vars, debugRuns, calls, pool >>

\* speeds and heights around the thresholds of isStable, and rest
LinearSpeedInputs ==
    {0} \cup (DEFAULT_LINEAR_THRESHOLD - ProbeSpan)..(DEFAULT_LINEAR_THRESHOLD + ProbeSpan)

AngularSpeedInputs ==
    {0} \cup (DEFAULT_ANGULAR_THRESHOLD - ProbeSpan)..(DEFAULT_ANGULAR_THRESHOLD + ProbeSpan)

HeightInputs ==
    {-ProbeSpan, 0, HalfThickness}
    \cup (GroundBand - ProbeSpan)..(GroundBand + ProbeSpan)

\* isStable(body)
ProbeIsStable ==
    /\ probe = NoProbe
    /\ \E v \in LinearSpeedInputs, w \in AngularSpeedInputs, y \in HeightInputs :
        probe' = [fn |-> "isStable", linearSpeed |-> v, angularSpeed |-> w, y |-> y,
                  stable |-> IsStable([linearSpeed |-> v, angularSpeed |-> w, y |-> y])]
    /\ UNCHANGED << vars, debugRuns, calls, pool >>

\* GROUND_Y - lowestPoint.y: how far the lower of the two face centers,
\* position -+ upWorld * thickness / 2, lies below the plane y = 0
PenetrationDepth(y, alignment) ==
    (Abs(alignment) * HalfThickness) \div 1000 - y

\* heights of the center from below the plane to above the point where a
\* flat coin touches it, and in flight
CenterHeightInputs ==
    (-PenetrationTolerance - ProbeSpan)..(-PenetrationTolerance + ProbeSpan)
    \cup (HalfThickness - PenetrationTolerance - ProbeSpan)..(HalfThickness + ProbeSpan)
    \cup {100000}

\* handleCollision(body): detect, respond, return what was detected; of a
\* body at the given height, flat either way up, tilted or upright, at rest
\* or in motion
ProbeHandleCollision ==
    /\ probe = NoProbe
    /\ \E y \in CenterHeightInputs, a \in {-1000, 0, 500, 1000},
          m \in { [linearSpeed |-> 0, angularSpeed |-> 0],
                  [linearSpeed |-> 3000, angularSpeed |-> 40000] },
          after \in ImpactResponses :
        LET before == [y |-> y, penetration |-> PenetrationDepth(y, a),
                       alignment |-> a, linearSpeed |-> m.linearSpeed,
                       angularSpeed |-> m.angularSpeed]
            collision == DetectCollision(before)
        IN  probe' = [fn |-> "handleCollision", before |-> before,
                      collision |-> collision,
                      body |-> ApplyCollisionResponse(before, collision, after)]
    /\ UNCHANGED << vars, debugRuns, calls, pool >>

\* the bytes one generateInitialCondition call reads: four for each uniform
BytesPerSample == GaussiansPerSample * UniformsPerGaussian * 4

\* entropy arrays from empty to more than one sample needs
EntropyLengthInputs ==
    {0, 3, 4, BlockSize, DefaultOutputBytes}
    \cup (BytesPerSample - ProbeSpan)..(BytesPerSample + ProbeSpan)

\* generateInitialCondition(entropy, params) called twice on the same bytes
\* and parameters (the default ones, or a launch from half the height with
\* another orientation); Math.random() answers each call as it likes
ProbeGenerateInitialCondition ==
    /\ probe = NoProbe
    /\ \E n \in EntropyLengthInputs,
          params \in { DEFAULT_LAUNCH_PARAMETERS,
                       [initialPosition |-> <<0, 50000, 0>>,
                        initialOrientation |-> <<0, 1, 0, 0>>] },
          r1 \in 1..MathRandomDraws, r2 \in 1..MathRandomDraws :
        LET entropy == [len |-> n, origin |-> <<"bytes">>]
        IN  probe' = [fn |-> "generateInitialCondition",
                      entropy |-> entropy, params |-> params,
                      first  |-> SampleInitialCondition(entropy, params, r1),
                      second |-> SampleInitialCondition(entropy, params, r2)]
    /\ UNCHANGED << vars, debugRuns, calls, pool >>

\* "limiting us to 256 blocks (8192 bytes)"
MaxExpandLength == 8192

\* output lengths from nothing to a block past the documented maximum
OutputLengthInputs ==
    0..ProbeSpan
    \cup (BlockSize - ProbeSpan)..(BlockSize + ProbeSpan)
    \cup (MaxExpandLength - ProbeSpan)..(MaxExpandLength + ProbeSpan)
    \cup {DefaultOutputBytes, MaxExpandLength + BlockSize,
          MaxExpandLength + BlockSize + 1}

\* expandEntropy(seed, outputLength) of a 32-byte seed
ProbeExpandEntropy ==
    /\ probe = NoProbe
    /\ \E n \in OutputLengthInputs :
        LET seed == MixEntropy(<< [len |-> BlockSize, origin |-> <<"seed">>] >>,
                               <<"seed">>)
        IN  probe' = [fn |-> "expandEntropy", outputLength |-> n,
                      output |-> ExpandEntropy(seed, n),
                      counters |-> BlockCounters(n)]
    /\ UNCHANGED << vars, debugRuns, calls, pool >>

(***************************************************************************)
(* applyCollisionResponse on a coin lying flat on the ground without spin. *)
(* The contact point is the lower face center, r = (0, -h/2, 0), so r x n  *)
(* vanishes and the normal impulse is j_n = -(1 + e) m v_n.  Velocities of *)
(* the contact point are kept as their component v_n along the normal and  *)
(* their component v_t along the tangent direction, in 1e-3 m/s.           *)
(***************************************************************************)

\* DEFAULT_COLLISION_CONFIG: restitution 0.5, friction 0.3 (in tenths)
Restitution == 5

Friction == 3

\* velocityDotNormal > -0.1: an approach slower than this does not bounce
RestingApproach == 100

\* the default coin: radius 0.01213 m, thickness 0.00175 m (1e-5 m)
CoinRadius == 1213

CoinThickness == 175

\* effectiveRestitution, in tenths
EffectiveRestitution(vn) == IF vn > -RestingApproach THEN 0 ELSE Restitution

\* j_n / m in 1e-4 m/s: the normal impulse, applied only to an approaching
\* contact point
NormalImpulse(vn) ==
    IF vn < 0 THEN (10 + EffectiveRestitution(vn)) * (-vn) ELSE 0

\* frictionImpulseMagnitude / m = friction * |j_n| / m, in 1e-5 m/s
FrictionImpulseMagnitude(vn) == Friction * Abs(NormalImpulse(vn))

\* What an impulse J along the tangent adds to the tangential velocity of the
\* contact point, over J / m, in percent: 100 for the linear velocity and
\* m (h/2)^2 / I_xx = 3 h h / (3 r r + h h) for the spin it sets up
ContactPointGain(r, h) == 100 + (300 * h * h) \div (3 * r * r + h * h)

\* j_t / m against the tangent direction, in 1e-5 m/s: none without
\* tangential velocity, else the whole Coulomb magnitude
FrictionImpulse(vt, vn) ==
    IF vt = 0 THEN 0 ELSE FrictionImpulseMagnitude(vn)

\* the tangential velocity of the contact point after the response, along
\* the tangent direction of before, in 1e-7 m/s
PostTangentialVelocity(vt, vn) ==
    vt * 10000 - FrictionImpulse(vt, vn) * ContactPointGain(CoinRadius, CoinThickness)

\* tangential speeds (along their own direction, so not negative) and normal
\* velocities from a fast approach to a separation
TangentialInputs == 0..(4 * ProbeSpan)

NormalInputs == (-RestingApproach - ProbeSpan)..ProbeSpan \cup {-5000}

\* applyCollisionResponse(body, collision) for a colliding contact
ProbeCollisionResponse ==
    /\ probe = NoProbe
    /\ \E vt \in TangentialInputs, vn \in NormalInputs :
        probe' = [fn |-> "applyCollisionResponse", vt |-> vt, vn |-> vn,
                  postTangential |-> PostTangentialVelocity(vt, vn)]
    /\ UNCHANGED << vars, debugRuns, calls, pool >>

NextDetectors ==
    \/ ProbeDetermineFace
    \/ ProbeDetectCollision
    \/ ProbeIsStable
    \/ ProbeCollisionResponse
    \/ ProbeHandleCollision
    \/ ProbeExpandEntropy
    \/ ProbeGenerateInitialCondition

SpecDetectors == Init /\ [][NextDetectors]_allVars

(***************************************************************************)
(* Properties of the detectors                                             *)
(***************************************************************************)

\* C15: with the default threshold determineFace returns HEADS exactly when
\* the alignment is greater than 0.1, TAILS exactly when it is less than
\* -0.1, and EDGE in every other case (alignments 0.1 and -0.1 included).
C15_FaceThresholds ==
    probe.fn = "determineFace" =>
        /\ probe.face = "HEADS" <=> probe.alignment > 100
        /\ probe.face = "TAILS" <=> probe.alignment < -100
        /\ probe.face = "EDGE" <=> (probe.alignment >= -100 /\ probe.alignment <= 100)

\* determineFace was asked about an alignment of exactly 0.1 or -0.1 and
\* answered EDGE
C15_Witness ==
    /\ probe.fn = "determineFace"
    /\ Abs(probe.alignment) = 100
    /\ probe.face = "EDGE"

\* C16: detectCollision reports colliding exactly when the penetration of
\* the lower face center below y = 0 is strictly greater than the
\* penetration tolerance; a penetration not greater than the tolerance is
\* reported as non-colliding.
C16_CollidingIffAboveTolerance ==
    probe.fn = "detectCollision" =>
        (probe.collision.colliding <=> probe.penetration > PenetrationTolerance)

\* C17: when detectCollision reports colliding, the result carries the
\* normal (0, 1, 0) and a penetrationDepth equal to the amount by which the
\* penetration exceeds the tolerance.
C17_DepthIsExceedance ==
    (probe.fn = "detectCollision" /\ probe.collision.colliding) =>
        /\ probe.collision.normal = <<0, 1, 0>>
        /\ probe.collision.penetrationDepth = probe.penetration - PenetrationTolerance

\* C17, amended: when detectCollision reports colliding, the result carries
\* the normal (0, 1, 0) and a penetrationDepth equal to the penetration
\* itself, the depth of the lower face center below the plane y = 0.
C17_DepthIsPenetration ==
    (probe.fn = "detectCollision" /\ probe.collision.colliding) =>
        /\ probe.collision.normal = <<0, 1, 0>>
        /\ probe.collision.penetrationDepth = probe.penetration

\* detectCollision reported a collision 1 mm deep, ten times the tolerance
C17_Witness ==
    /\ probe.fn = "detectCollision"
    /\ probe.penetration = 100
    /\ probe.collision.colliding
    /\ probe.collision.penetrationDepth = 100

\* C18: after applyCollisionResponse the tangential velocity of the contact
\* point is no larger in magnitude than before the collision and does not
\* point the opposite way.
C18_FrictionNeverReverses ==
    probe.fn = "applyCollisionResponse" =>
        /\ probe.postTangential >= 0
        /\ Abs(probe.postTangential) <= probe.vt * 10000

LoopStart ==
    [body |-> InitialBody, bounceCount |-> 0, consecutiveStableCount |-> 0,
     elapsedSteps |-> 0, settled |-> FALSE]

\* one iteration of the loop
LoopBody(st, cfg, integrated, after) ==
    LET damped    == GroundDamping(integrated, cfg)
        collision == DetectCollision(damped)
        b         == ApplyCollisionResponse(damped, collision, after)
        count     == NextStableCount(st.consecutiveStableCount, IsStable(b))
    IN  [body |-> b,
         bounceCount |-> IF collision.colliding THEN st.bounceCount + 1 ELSE st.bounceCount,
         consecutiveStableCount |-> count,
         elapsedSteps |-> IF count >= maxConsecutiveStableFrames
                          THEN st.elapsedSteps ELSE st.elapsedSteps + 1,
         settled |-> count >= maxConsecutiveStableFrames]

\* the states in which the loop can be left, from a set of running ones
RECURSIVE LoopRuns(_, _, _, _)
LoopRuns(running, left, timeoutTenths, cfg) ==
    IF running = {} THEN left
    ELSE LET leaving == { st \in running :
                            st.settled \/ ~LoopCondition(st.elapsedSteps, timeoutTenths) }
         IN  LoopRuns(UNION { { LoopBody(st, cfg, integrated, after) :
                                  integrated \in IntegratedBodies,
                                  after \in ImpactResponses } :
                              st \in running \ leaving },
                      left \cup leaving, timeoutTenths, cfg)

\* what the code after the loop reads of the state the loop was left in
LoopExits(timeoutTenths, cfg) ==
    { [timedOut |-> TimedOut(st.consecutiveStableCount),
       face |-> DetermineFace(st.body),
       y |-> st.body.y,
       bounceCount |-> st.bounceCount] :
        st \in LoopRuns({LoopStart}, {}, timeoutTenths, cfg) }

\* the option objects of the concurrent calls: a coin the constructor
\* accepts and a timeout that lets it settle, with different retry limits
ConcurrentOptionsInputs ==
    { [entropyLevel |-> "fast", coinConfig |-> HeavyCoin,
       timeout |-> TimeoutLong, maxEdgeRetries |-> n] : n \in 0..MaxRetryLimit }

\* the timeouts and coins the concurrent calls simulate with
AttemptConfigs ==
    { << ResolveOptions(o).timeout, ResolveOptions(o).coinConfig >> :
        o \in ConcurrentOptionsInputs }

\* the loop exits of each of them, computed once
LoopExitsTable ==
    { [key |-> k, exits |-> LoopExits(k[1], k[2])] : k \in AttemptConfigs }

AttemptExits(timeoutTenths, cfg) ==
    (CHOOSE row \in LoopExitsTable : row.key = << timeoutTenths, cfg >>).exits

\* the collectEntropy calls the concurrent calls can make between them, and
\* what each can resolve to or reject with, computed once
CollectCallIds == 1..(Cardinality(Callers) * (MaxRetryLimit + 1))

EntropyTable ==
    { [key |-> << ResolveOptions(o).entropyLevel, call >>,
       outcomes |-> FlipCoinEntropy(ResolveOptions(o).entropyLevel, call)] :
        o \in ConcurrentOptionsInputs, call \in CollectCallIds }

AwaitedEntropy(level, call) ==
    (CHOOSE row \in EntropyTable : row.key = << level, call >>).outcomes

\* a frame entering an iteration of the retry loop: it calls collectEntropy
\* (the next call the pool sees) and awaits it
AwaitCollectEntropy(frame, call) ==
    [frame EXCEPT !.pending = call, !.ownCollects = @ \cup {call},
                  !.pc = "collecting"]

\* no call has settled without its caller having taken the result
AllDelivered == \A d \in Callers : calls.frames[d].pc \notin {"returned", "threw"}

\* flipCoin(options) is called by caller c and runs to its first await
ConcurrentFlipCoin(c) ==
    /\ AllDelivered
    /\ calls.frames[c].pc = "idle"
    /\ \E o \in ConcurrentOptionsInputs :
        calls' = [calls EXCEPT
                    !.collectCalls = @ + 1,
                    !.frames[c] = AwaitCollectEntropy([@ EXCEPT !.options = o],
                                                      calls.collectCalls + 1)]
    /\ UNCHANGED << vars, debugRuns, probe, pool >>

\* the collectEntropy call that c awaits rejects: so does c's flipCoin
ConcurrentCollectionFailed(c) ==
    /\ AllDelivered
    /\ calls.frames[c].pc = "collecting"
    /\ \E e \in AwaitedEntropy(ResolveOptions(calls.frames[c].options).entropyLevel,
                               calls.frames[c].pending) :
        /\ e.threw
        /\ calls' = [calls EXCEPT !.frames[c].error = Rethrow(e.error),
                                  !.frames[c].pc = "threw"]
    /\ UNCHANGED << vars, debugRuns, probe, pool >>

\* an integrator that moves the vector it was given
AssignPosition_InPlace(launch, position) ==
    [launch EXCEPT !.initialPosition = position]

\* body.position = body.position.add(...): the body is given a new vector;
\* the launch parameters its first position came from stay as they are
AssignPosition(launch, position) == launch

\* The collectEntropy call that c awaits resolves, and c runs on to its next
\* await, its return or its throw: it samples the initial state from the
\* shared launch parameters, builds the body, runs the loop, and throws on
\* timeout, retries or gives up on EDGE, or returns.
ConcurrentAttempt(c) ==
    /\ AllDelivered
    /\ calls.frames[c].pc = "collecting"
    /\ LET frame    == calls.frames[c]
           o        == ResolveOptions(frame.options)
           singular == RigidBodyInverseInertia(o.coinConfig) = Null
           exits    == AttemptExits(o.timeout, o.coinConfig)
       IN  \E e \in AwaitedEntropy(o.entropyLevel, frame.pending) :
            /\ ~e.threw
            /\ LET began == [frame EXCEPT
                               !.entropyResult = [bytes |-> e.bytes, stats |-> e.stats],
                               !.initialState =
                                   GenerateInitialCondition(
                                       AttemptBytes(e, frame.entropyResult), calls.launch)]
               IN  IF singular
                   THEN calls' = [calls EXCEPT !.frames[c] =
                            [began EXCEPT
                               !.error = [name |-> "Error",
                                          message |-> "Inertia tensor is singular"],
                               !.pc = "threw"]]
                   ELSE \E exit \in exits, rt \in { RunTimeFast, RunTimeSlow } :
                     IF exit.timedOut
                     THEN calls' = [calls EXCEPT
                            !.launch = AssignPosition(@, <<0, exit.y, 0>>),
                            !.frames[c] =
                                [began EXCEPT
                                   !.error = [name |-> "SimulationTimeoutError",
                                              timeoutMs |-> o.timeout, elapsedMs |-> rt],
                                   !.pc = "threw"]]
                     ELSE IF IsRetryFace(exit.face)
                     THEN IF RetriesExhausted(frame.retries + 1, o.maxEdgeRetries)
                          THEN calls' = [calls EXCEPT
                                 !.launch = AssignPosition(@, <<0, exit.y, 0>>),
                                 !.frames[c] =
                                     [began EXCEPT
                                        !.retries = @ + 1, !.edges = @ + 1,
                                        !.error = [name |-> "EdgeRetryExhaustedError",
                                                   maxRetries |-> o.maxEdgeRetries],
                                        !.pc = "threw"]]
                          ELSE calls' = [calls EXCEPT
                                 !.launch = AssignPosition(@, <<0, exit.y, 0>>),
                                 !.collectCalls = @ + 1,
                                 !.frames[c] =
                                     AwaitCollectEntropy(
                                         [began EXCEPT !.retries = @ + 1, !.edges = @ + 1],
                                         calls.collectCalls + 1)]
                     ELSE calls' = [calls EXCEPT
                            !.launch = AssignPosition(@, <<0, exit.y, 0>>),
                            !.frames[c] =
                                [began EXCEPT
                                   !.result = [outcome |-> exit.face,
                                               stats |-> [simulationTime |-> rt,
                                                          entropyBitsUsed |-> e.stats.totalBits,
                                                          bounceCount |-> exit.bounceCount,
                                                          retryCount |-> frame.retries]],
                                   !.pc = "returned"]]
    /\ UNCHANGED << vars, debugRuns, probe, pool >>

\* The promise of call c has settled: its caller takes the result or the
\* error before anything else runs, and the locals of the call are gone.
ConcurrentDelivered(c) ==
    /\ calls.frames[c].pc \in {"returned", "threw"}
    /\ calls' = [calls EXCEPT !.frames[c] = [IdleFrame EXCEPT !.pc = "done"]]
    /\ UNCHANGED << vars, debugRuns, probe, pool >>

NextConcurrent ==
    \/ \E c \in Callers : ConcurrentFlipCoin(c)
    \/ \E c \in Callers : ConcurrentCollectionFailed(c)
    \/ \E c \in Callers : ConcurrentAttempt(c)
    \/ \E c \in Callers : ConcurrentDelivered(c)

SpecConcurrent == Init /\ [][NextConcurrent]_allVars

(***************************************************************************)
(* Properties of concurrent calls                                          *)
(***************************************************************************)

\* C20: flipCoin calls in flight together interleave at their
\* collectEntropy awaits, and each call's outcome and stats depend only on
\* its own options and its own collected entropy.  No call changes what
\* another reads (the shared launch parameters stay as declared); every
\* collectEntropy call is awaited by one flipCoin call; a call samples its
\* initial state from bytes of a collection of its own and the declared
\* launch parameters; what it returns is a result of its own simulation
\* (its own timeout and coin) with its own retry count and its own entropy
\* estimate, and what it throws names its own limits.
C20_CallsAreIndependent ==
    /\ calls.launch = DEFAULT_LAUNCH_PARAMETERS
    /\ \A c \in Callers :
        LET frame == calls.frames[c]
            o     == ResolveOptions(frame.options)
        IN  /\ \A d \in Callers \ {c} :
                  frame.ownCollects \cap calls.frames[d].ownCollects = {}
            /\ frame.pc = "collecting" => frame.pending \in frame.ownCollects
            /\ frame.entropyResult # NoEntropy =>
                  /\ \E k \in frame.ownCollects :
                        frame.entropyResult.bytes.origin = <<"expand", <<"sha256", k>>>>
                  /\ frame.initialState =
                        GenerateInitialCondition(frame.entropyResult.bytes,
                                                 DEFAULT_LAUNCH_PARAMETERS)
            /\ frame.pc = "returned" =>
                  /\ frame.result.stats.retryCount = frame.edges
                  /\ frame.edges <= o.maxEdgeRetries
                  /\ frame.result.stats.entropyBitsUsed = frame.entropyResult.stats.totalBits
                  /\ \E exit \in AttemptExits(o.timeout, o.coinConfig) :
                        /\ ~exit.timedOut
                        /\ exit.face = frame.result.outcome
                        /\ exit.bounceCount = frame.result.stats.bounceCount
            /\ frame.error.name = "EdgeRetryExhaustedError" =>
                  /\ frame.error.maxRetries = o.maxEdgeRetries
                  /\ frame.edges = o.maxEdgeRetries + 1
            /\ frame.error.name = "SimulationTimeoutError" =>
                  frame.error.timeoutMs = o.timeout
            /\ frame.error.name = "EntropyCollectionFailedError" =>
                  frame.error.call = frame.pending

\* call 1 awaited collectEntropy, call 2 was made with other options and
\* awaits its own collection, call 1 landed on EDGE, collected again and
\* returned after one retry while call 2 is still in flight
C20_Witness ==
    /\ calls.frames[1].pc = "returned"
    /\ calls.frames[1].ownCollects = {1, 3}
    /\ calls.frames[1].result.stats.retryCount = 1
    /\ calls.frames[2].pc = "collecting"
    /\ calls.frames[2].ownCollects = {2}
    /\ calls.frames[2].options # calls.frames[1].options

(***************************************************************************)
(* Properties of the simulation loop                                       *)
(***************************************************************************)

\* what integrate left behind in the step that produced body b (damping and
\* the collision response leave the alignment as it is)
IntegratedOf(b) == CHOOSE i \in IntegratedBodies : i.alignment = b.alignment

\* C21: every simulation step runs integrate, the near-ground damping (both
\* velocities times 0.8 exactly when position.y < coin radius), collision
\* detection, collision response and the stability check, in this order and
\* once each: the step counts once, the body it leaves is the integrated
\* body, damped exactly when it is below the coin radius, and answered by
\* the collision response exactly when the detector reported a collision of
\* the damped body (one more bounce, projected up by the penetration depth),
\* and the stability counter is advanced or reset by isStable of that body.
C21_StepOrder ==
    [][ simSteps' = simSteps + 1 =>
          \E i \in { IntegratedOf(body') } :
          \E near \in { DLess(Dec(i.y, -5), coinConfig.radius) } :
          \E damped \in
              { [i EXCEPT !.linearSpeed = IF near THEN (@ * 8) \div 10 ELSE @,
                          !.angularSpeed = IF near THEN (@ * 8) \div 10 ELSE @] } :
          LET colliding == damped.penetration >= PenetrationTolerance
          IN  /\ bounceCount' = bounceCount + (IF colliding THEN 1 ELSE 0)
              /\ ~colliding => body' = damped
              /\ colliding =>
                    /\ body'.y = damped.y + damped.penetration
                    /\ \E after \in ImpactResponses :
                          /\ body'.linearSpeed = after.linearSpeed
                          /\ body'.angularSpeed = after.angularSpeed
              /\ consecutiveStableCount' =
                    IF IsStable(body') THEN consecutiveStableCount + 1 ELSE 0
              /\ elapsedSteps' =
                    IF consecutiveStableCount' >= maxConsecutiveStableFrames
                    THEN elapsedSteps ELSE elapsedSteps + 1
      ]_vars

\* a step in which the coin hit the ground moving, was damped, stopped by
\* the collision response, and counted as stable for the first time
C21_Witness ==
    /\ simSteps > 0
    /\ lastUnstableStep < simSteps
    /\ consecutiveStableCount = 1
    /\ bounceCount > 0
    /\ IntegratedOf(body).linearSpeed > DEFAULT_LINEAR_THRESHOLD
    /\ body.linearSpeed = 0
    /\ body.y = IntegratedOf(body).y + IntegratedOf(body).penetration

C23_RetryCountIsEdgeCount ==
    pc = "returned" =>
        /\ result.stats.retryCount = edgeCount
        /\ result.stats.retryCount = faceCalls - 1
        /\ 0 <= result.stats.retryCount
        /\ result.stats.retryCount <= maxEdgeRetries

C23_Witness ==
    /\ pc = "returned"
    /\ edgeCount > 0
    /\ result.stats.retryCount = maxEdgeRetries

C25_NoCollisionNoChange ==
    (probe.fn = "handleCollision" /\ ~probe.collision.colliding) =>
        /\ probe.body.y = probe.before.y
        /\ probe.body.alignment = probe.before.alignment
        /\ probe.body.linearSpeed = probe.before.linearSpeed
        /\ probe.body.angularSpeed = probe.before.angularSpeed

C25_Witness ==
    /\ probe.fn = "handleCollision"
    /\ ~probe.collision.colliding
    /\ probe.before.penetration > 0
    /\ probe.before.linearSpeed > 0
    /\ probe.body = probe.before

\* C26: right after handleCollision returns the body does not penetrate the
\* ground by more than the tolerance: a colliding body was moved up along the
\* normal by the full penetration depth, so that its lower face center lies on
\* y = 0, and a non-colliding body had a penetration below the tolerance
\* already.
C26_NoPenetrationAfterHandling ==
    probe.fn = "handleCollision" =>
        /\ PenetrationDepth(probe.body.y, probe.body.alignment) <= PenetrationTolerance
        /\ probe.collision.colliding =>
              /\ probe.body.y = probe.before.y + probe.before.penetration
              /\ probe.body.alignment = probe.before.alignment
              /\ PenetrationDepth(probe.body.y, probe.body.alignment) = 0
        /\ ~probe.collision.colliding =>
              PenetrationDepth(probe.before.y, probe.before.alignment)
                  < PenetrationTolerance

C26_Witness ==
    /\ probe.fn = "handleCollision"
    /\ probe.collision.colliding
    /\ probe.before.penetration > PenetrationTolerance
    /\ probe.before.alignment = 500
    /\ PenetrationDepth(probe.body.y, probe.body.alignment) = 0

\* C27: expandEntropy never produces an output longer than 8192 bytes, so no
\* two 32-byte blocks of one output derive from the same value of the
\* single-byte block counter.
C27_ExpandAtMostMaxLength ==
    probe.fn = "expandEntropy" =>
        /\ probe.output.len <= MaxExpandLength
        /\ \A i, j \in DOMAIN probe.counters :
              probe.counters[i] = probe.counters[j] => i = j

\* C28 as stated: for any entropy byte array and any launch parameters, two
\* calls of generateInitialCondition with the same bytes and parameters return
\* the same state.
C28_SameBytesSameState ==
    probe.fn = "generateInitialCondition" => probe.first = probe.second

\* C28, amended: for any entropy byte array of at least 40 bytes and any
\* launch parameters, two calls of generateInitialCondition with the same
\* bytes and parameters return the same state.
C28_EnoughBytesSameState ==
    (probe.fn = "generateInitialCondition" /\ probe.entropy.len >= BytesPerSample) =>
        probe.first = probe.second

C28_Witness ==
    /\ probe.fn = "generateInitialCondition"
    /\ probe.entropy.len = BytesPerSample
    /\ probe.params # DEFAULT_LAUNCH_PARAMETERS
    /\ probe.first = probe.second
    /\ probe.first.position = probe.params.initialPosition
    /\ probe.first.angularVelocity.axis[6].from = "bytes"

(***************************************************************************)
(* collectEntropy followed through its loop (entropy/pool.ts).  The call   *)
(* is at the top of an iteration ("loop"), awaiting performEntropySweep    *)
(* ("sweeping"), or settled.  The sleep to minTimeMs after the loop never  *)
(* sleeps: the loop is left with elapsed >= minTimeMs either way.          *)
(***************************************************************************)

\* duration of a sweep whose sources answer well before their timeouts (ms)
SweepBriefMs == 100

\* the options collectEntropy is called with: none (the standard level), the
\* fast level, and the fast level with a single block of output
PoolOptionsInputs ==
    { EmptyObject, [level |-> "fast"], [level |-> "fast", outputBytes |-> BlockSize] }

PoolConfig == ENTROPY_LEVEL_CONFIGS[pool.level]

\* collectEntropy(options): resolve the options, start the clock
PoolCollect ==
    /\ pool.pc = "idle"
    /\ \E o \in PoolOptionsInputs :
        pool' = [pool EXCEPT !.pc = "loop", !.options = o,
                             !.level = OrDefault(o, "level", "standard"),
                             !.outputBytes = OrDefault(o, "outputBytes", DefaultOutputBytes),
                             !.locals = PoolStart]
    /\ UNCHANGED << vars, debugRuns, probe, calls >>

\* the top of an iteration that neither throws nor breaks: the remaining time
\* caps the timeouts of the sources and performEntropySweep is awaited
PoolBeginSweep ==
    /\ pool.pc = "loop"
    /\ ~PoolTimeUp(PoolConfig, pool.locals)
    /\ ~PoolSatisfied(PoolConfig, pool.locals)
    /\ LET remainingTime == PoolConfig.maxTimeMs - pool.locals.elapsed
       IN  pool' = [pool EXCEPT !.pc = "sweeping",
                                !.sweeps = @ + 1,
                                !.sweepStartedAt = pool.locals.elapsed,
                                !.timingTimeout = TimingTimeout(remainingTime),
                                !.cryptoTimeout = CryptoTimeout(remainingTime)]
    /\ UNCHANGED << vars, debugRuns, probe, calls >>

\* performEntropySweep settles, after a brief time or when the longest source
\* timeout has run out; the successes are accumulated, the failures dropped,
\* and the loop sleeps 10 ms while the target is not met.  A timing source
\* out of time leaves its loop and returns the samples it has (none, here),
\* and that is a success.
PoolEndSweep ==
    /\ pool.pc = "sweeping"
    /\ \E timing \in TimingOutcomes(PoolConfig)
                       \cup { [name |-> "timing", success |-> TRUE,
                                estimatedBits |-> 0] },
          crypto \in CryptoOutcomes(PoolConfig),
          cryptoAvailable \in BOOLEAN,
          d \in { Min(SweepBriefMs, Max(pool.timingTimeout, pool.cryptoTimeout)),
                  Max(pool.timingTimeout, pool.cryptoTimeout) } :
        LET sweepResults == PerformEntropySweep(timing, cryptoAvailable, crypto)
            ok == Successful(sweepResults)
        IN  pool' = [pool EXCEPT !.pc = "loop",
                                 !.locals = PoolSweep(PoolConfig, pool.locals, sweepResults, d),
                                 !.successes = @ + Len(ok),
                                 !.failures = @ + Len(sweepResults) - Len(ok)]
    /\ UNCHANGED << vars, debugRuns, probe, calls >>

\* the top of an iteration that throws or breaks, and everything after the
\* loop: mix, expand, return
PoolLeave ==
    /\ pool.pc = "loop"
    /\ PoolTimeUp(PoolConfig, pool.locals) \/ PoolSatisfied(PoolConfig, pool.locals)
    /\ LET outcome == PoolOutcome(pool.level, PoolConfig, pool.locals,
                                  pool.outputBytes, 1)
       IN  pool' = [pool EXCEPT !.pc = IF outcome.threw THEN "rejected" ELSE "resolved",
                                !.result = IF outcome.threw THEN NoEntropy
                                           ELSE [bytes |-> outcome.bytes,
                                                 stats |-> outcome.stats],
                                !.error = IF outcome.threw THEN outcome.error ELSE NoError]
    /\ UNCHANGED << vars, debugRuns, probe, calls >>

NextPool ==
    \/ PoolCollect
    \/ PoolBeginSweep
    \/ PoolEndSweep
    \/ PoolLeave

\* The event loop runs the continuation of every settled promise and fires
\* every timer: a call that can go on does.  The sources settle because the
\* timing source tests its timeout before every sample and the crypto source
\* is raced against a timer.
SpecPool ==
    /\ Init
    /\ [][NextPool]_allVars
    /\ WF_allVars(PoolCollect)
    /\ WF_allVars(PoolBeginSweep)
    /\ WF_allVars(PoolEndSweep)
    /\ WF_allVars(PoolLeave)

(***************************************************************************)
(* Properties of collectEntropy                                            *)
(***************************************************************************)

\* C29: collectEntropy fails with EntropyCollectionFailedError only when
\* maxTimeMs has elapsed and no source has succeeded in any sweep; with at
\* least one success it returns the mixed and expanded bytes even when
\* totalBits is below the target; a failing source is skipped (it is not among
\* the results) and does not fail the call.
C29_FailsOnlyWithoutAnySuccess ==
    /\ pool.pc = "rejected" =>
          /\ pool.error.name = "EntropyCollectionFailedError"
          /\ pool.locals.elapsed >= PoolConfig.maxTimeMs
          /\ pool.successes = 0
    /\ (pool.pc \in {"resolved", "rejected"} /\ pool.successes > 0) =>
          /\ pool.pc = "resolved"
          /\ pool.error = NoError
          /\ pool.result.bytes.len = pool.outputBytes
          /\ pool.result.bytes.origin = <<"expand", <<"sha256", 1>>>>
          /\ pool.result.stats.totalBits = pool.locals.totalBits
    /\ Len(pool.locals.allResults) = pool.successes

C29_Witness ==
    /\ pool.pc = "resolved"
    /\ pool.failures > 0
    /\ pool.successes > 0
    /\ pool.result.stats.totalBits > 0
    /\ pool.result.stats.totalBits < PoolConfig.targetBits

\* C30: collectEntropy never blocks indefinitely: no sweep is started once
\* maxTimeMs has elapsed since the call began, every source's timeout in a
\* sweep is at most the time then remaining until maxTimeMs, and every call
\* completes.
C30_CollectEntropyCompletes ==
    /\ [](pool.pc = "sweeping" =>
            /\ pool.sweepStartedAt < PoolConfig.maxTimeMs
            /\ pool.timingTimeout <= PoolConfig.maxTimeMs - pool.sweepStartedAt
            /\ pool.cryptoTimeout <= PoolConfig.maxTimeMs - pool.sweepStartedAt)
    /\ (pool.pc # "idle" ~> pool.pc \in {"resolved", "rejected"})

C30_Witness ==
    /\ pool.pc \in {"resolved", "rejected"}
    /\ pool.sweeps > 2
    /\ pool.timingTimeout < 200
    /\ pool.cryptoTimeout < 100

=============================================================================
